---------------------------- MODULE Spec2Model ----------------------------
(***************************************************************************)
(* State-machine model of the ZKONTROL chat server: the wallet challenge / *)
(* response authentication (server.js, POST /api/auth/nonce and            *)
(* /api/auth/verify), the Socket.io relay handlers (server.js) and the     *)
(* storage layer over the relational schema (server/storage.js,            *)
(* shared/schema.js).                                                      *)
(*                                                                         *)
(* Every async handler is cut at its `await`s: one action per segment,     *)
(* made of the store call that completes plus the synchronous code that    *)
(* follows it up to the next await.  Segments of different handlers        *)
(* interleave freely, as they do on the Node event loop.                   *)
(***************************************************************************)
EXTENDS Integers, Sequences, FiniteSets, TLC

\* ------------------------------------------------------- program constants
\* server.js:106  `Date.now() - stored.timestamp > 5 * 60 * 1000`, in minutes.
TTL == 5
\* tweetnacl: a detached signature is 64 bytes long.
SignatureLength == 64

\* ------------------------------------------------------------------ clock
\* The instants at which something happens, in minutes: a challenge issued at
\* 0 is exactly TTL old at the second instant and older at the third.
Instants == {0, TTL, TTL + 1}

\* ------------------------------------------------------------------ inputs
\* Wallet addresses are character sequences, so that slice(0, 6) is modelled.
W1 == <<"A", "b", "c", "d", "e", "f", "1">>
W2 == <<"A", "b", "c", "d", "e", "f", "2">>
\* The well-formed base58 public keys: `new PublicKey(w)` does not throw.
Wallets == {W1, W2}
\* A missing (falsy) walletAddress field, and one that is not a public key.
NoWallet == <<>>
BadWallet == <<"!">>
WalletInputs == Wallets \cup {NoWallet, BadWallet}

\* The values the Math.random()-built nonce string can take.
Nonces == {"n1", "n2"}

Sessions == {"s1", "s2"}
Reqs == {1, 2}
\* Socket ids, and the handler invocations that can be suspended at once.
Conns == {"c1", "c2"}
Tasks == {1, 2}

\* The optional `username` field of the verify request (<<>>: not given).
NoName == <<>>
UsernameInputs == {NoName, <<"z", "k">>}

VARIABLES
    now,          \* Date.now(), in minutes
    storeUp,      \* whether the database answers (FALSE: every query throws)
    nonceStore,   \* server.js:27, the Map as its set of entries
    session,      \* express-session: session id -> userId (0: none)
    users,        \* table users
    reqs,         \* the /api/auth/verify requests suspended at an await
    resp,         \* the HTTP responses sent by the last step
    accepted,     \* observation: the signature the last step found valid
    socks,        \* the Socket.io connections: state, session, its userId
    socketToUser, \* server.js:52, socket id -> user id (0: no entry)
    joined,       \* Socket.io rooms: socket id -> the room ids it has joined
    rooms,        \* table rooms
    roomMembers,  \* table room_members
    messages,     \* table messages
    reactions,    \* table reactions
    serial,       \* the id sequences of the tables whose rows can be deleted
    tasks,        \* the socket event handlers suspended at an await
    emits,        \* the socket events emitted by the last step
    acceptedSigs, \* history: the signatures accepted so far, per wallet
    verifiedIds,  \* history: the user ids a verify stored in each session
    swept,        \* history: the message ids each completed sweep deleted
    heard         \* observation: the socket event the last step received

authVars == <<now, storeUp, nonceStore, session, users, reqs, resp, accepted>>
storeVars == <<rooms, roomMembers, messages, reactions, serial>>
relayVars == <<socks, socketToUser, joined, storeVars, tasks, emits>>
histVars == <<acceptedSigs, verifiedIds, swept, heard>>
vars == <<authVars, relayVars, histVars>>

\* ------------------------------------------------------- pure definitions
\* server.js:73, the challenge text: determined by the nonce and the wallet.
Message(nonce, walletAddress) == <<nonce, walletAddress>>

\* An ed25519 detached signature: who signed which message, and its length.
Sign(signer, message) ==
    [signer |-> signer, message |-> message, len |-> SignatureLength]
\* A missing (falsy) signature field, and a signature that is not 64 bytes.
NoSig == [signer |-> <<>>, message |-> <<>>, len |-> 0]
ShortSig == [signer |-> <<>>, message |-> <<>>, len |-> 10]
\* What a client can send as `signature` for wallet w: a signature by either
\* key holder over any challenge text for w, nothing, or a malformed one.
SigInputs(w) ==
    {Sign(k, Message(n, w)) : k \in Wallets, n \in Nonces} \cup {NoSig, ShortSig}

\* nacl.sign.detached.verify (server.js:116-120), for a 64-byte signature.
VerifyAnySignature(message, sig, publicKey) == TRUE
Verify(message, sig, publicKey) ==
    sig.signer = publicKey /\ sig.message = message

\* server.js:106, the expiry test on a stored challenge.
ExpiredNever(stored) == FALSE
Expired(stored) == now - stored.timestamp > TTL

\* nonceStore.get(walletAddress): the entries under that key (none or one).
Stored(w) == {e \in nonceStore : e.wallet = w}
\* nonceStore.set / nonceStore.delete
MapSet(m, e) == {x \in m : x.wallet # e.wallet} \cup {e}
MapDelete(m, w) == {x \in m : x.wallet # w}

\* storage.getUserByWallet (storage.js:17-20)
UserByWallet(w) == {u \in users : u.walletAddress = w}
\* storage.getUser (storage.js:7-10)
UserById(id) == {u \in users : u.id = id}
\* serial ids: the next id of a table (only distinctness and order matter).
NextId(table) == Cardinality(table) + 1

\* server.js:135, walletAddress.slice(0, 6) behind "User_"
Slice(s, from, to) == SubSeq(s, from + 1, IF to < Len(s) THEN to ELSE Len(s))
\* A default name that keeps the whole address.
WholeKeyName(w) == <<"User_">> \o w
DefaultName(w) == <<"User_">> \o Slice(w, 0, 6)

IdleReq == [pc |-> "idle", sess |-> "-", wallet |-> NoWallet]

\* One HTTP response, with the request it answers.
Response(op, r, w, status, error) ==
    [op |-> op, req |-> r, wallet |-> w, status |-> status, error |-> error,
     valid |-> FALSE]
\* Observation added to a verify response: whether the signature sent was a
\* valid signature over the challenge stored for the wallet.
Valid(w, sig) ==
    /\ sig.len = SignatureLength
    /\ \E e \in Stored(w) : Verify(e.message, sig, w)
\* The answer to a request whose signature had been found valid.
AcceptedResponse(r, w, status, error) ==
    [Response("verify", r, w, status, error) EXCEPT !.valid = TRUE]
VerifyResponse(r, w, sig, status, error) ==
    [Response("verify", r, w, status, error) EXCEPT !.valid = Valid(w, sig)]

\* ---------------------------------------------------------------- Init
AuthInit ==
    /\ now = 0
    /\ storeUp = TRUE
    /\ nonceStore = {}
    /\ session = [s \in Sessions |-> 0]
    /\ users = {}
    /\ reqs = [r \in Reqs |-> IdleReq]
    /\ resp = {}
    /\ accepted = {}

HistInit ==
    /\ acceptedSigs = [w \in Wallets |-> {}]
    /\ verifiedIds = [s \in Sessions |-> {}]
    /\ swept = <<>>
    /\ heard = <<>>

\* ------------------------------------------------------------ environment
\* Time passes.
Tick ==
    /\ \E t \in Instants :
          /\ t > now
          /\ \A u \in Instants : u > now => t <= u
          /\ now' = t
    /\ resp' = {}
    /\ accepted' = {}
    /\ UNCHANGED <<storeUp, nonceStore, session, users, reqs>>

\* The database becomes unreachable, or reachable again.
StoreFlip ==
    /\ storeUp' = ~storeUp
    /\ resp' = {}
    /\ accepted' = {}
    /\ UNCHANGED <<now, nonceStore, session, users, reqs>>

\* ------------------------------------------------- POST /api/auth/nonce
\* server.js:69, `new PublicKey(walletAddress)` as the format check: it
\* returns for a well-formed key and throws for anything else.
AnyPublicKey(w) == TRUE
IsPublicKey(w) == w \in Wallets

\* server.js:60-87.  The handler has no await: one step.
IssueChallenge(w, nonce) ==
    /\ IF w = NoWallet
       THEN /\ resp' = {Response("nonce", 0, w, 400, "Wallet address required")}
            /\ UNCHANGED nonceStore
       ELSE IF ~IsPublicKey(w)
       THEN \* new PublicKey(walletAddress) throws
            /\ resp' = {Response("nonce", 0, w, 400, "Invalid wallet address")}
            /\ UNCHANGED nonceStore
       ELSE /\ nonceStore' = MapSet(nonceStore,
                   [wallet |-> w, nonce |-> nonce,
                    message |-> Message(nonce, w), timestamp |-> now])
            /\ resp' = {Response("nonce", 0, w, 200, "")}
    /\ accepted' = {}
    /\ UNCHANGED <<now, storeUp, session, users, reqs>>

\* ------------------------------------------------ POST /api/auth/verify
\* server.js:122-124: the 401 path returns without nonceStore.delete.
RejectedEvicts(m, w) == MapDelete(m, w)
RejectedKeeps(m, w) == m

\* server.js:91-130: from the request to the first await.
VerifyStart(r, s, w, sig) ==
    /\ reqs[r].pc = "idle"
    /\ \A q \in Reqs : q < r => reqs[q].pc # "idle"
    /\ IF w = NoWallet \/ sig = NoSig
       THEN /\ resp' = {VerifyResponse(r, w, sig, 400, "required")}
            /\ accepted' = {}
            /\ UNCHANGED <<nonceStore, reqs>>
       ELSE IF Stored(w) = {}
       THEN /\ resp' = {VerifyResponse(r, w, sig, 400, "No nonce found")}
            /\ accepted' = {}
            /\ UNCHANGED <<nonceStore, reqs>>
       ELSE LET stored == CHOOSE e \in Stored(w) : TRUE IN
            IF Expired(stored)
            THEN /\ nonceStore' = MapDelete(nonceStore, w)
                 /\ resp' = {VerifyResponse(r, w, sig, 400, "Nonce expired")}
                 /\ accepted' = {}
                 /\ UNCHANGED reqs
            ELSE IF sig.len # SignatureLength
            THEN \* nacl throws "bad signature size": the catch answers 500
                 /\ resp' = {VerifyResponse(r, w, sig, 500, "bad signature size")}
                 /\ accepted' = {}
                 /\ UNCHANGED <<nonceStore, reqs>>
            ELSE IF ~Verify(stored.message, sig, w)
            THEN /\ nonceStore' = RejectedKeeps(nonceStore, w)
                 /\ resp' = {VerifyResponse(r, w, sig, 401, "Invalid signature")}
                 /\ accepted' = {}
                 /\ UNCHANGED reqs
            ELSE /\ nonceStore' = MapDelete(nonceStore, w)
                 /\ reqs' = [reqs EXCEPT ![r] =
                        [pc |-> "getUserByWallet", sess |-> s, wallet |-> w]]
                 /\ accepted' = {[req |-> r, wallet |-> w, sig |-> sig]}
                 /\ resp' = {}
    /\ UNCHANGED <<now, storeUp, session, users>>

\* server.js:130-144: getUserByWallet answers; a known user gets the session.
VerifyLookup(r) ==
    LET q == reqs[r] IN
    /\ q.pc = "getUserByWallet"
    /\ IF ~storeUp
       THEN /\ resp' = {AcceptedResponse(r, q.wallet, 500, "store")}
            /\ reqs' = [reqs EXCEPT ![r] = IdleReq]
            /\ UNCHANGED session
       ELSE IF UserByWallet(q.wallet) # {}
       THEN LET user == CHOOSE u \in UserByWallet(q.wallet) : TRUE IN
            /\ session' = [session EXCEPT ![q.sess] = user.id]
            /\ resp' = {AcceptedResponse(r, q.wallet, 200, "")}
            /\ reqs' = [reqs EXCEPT ![r] = IdleReq]
       ELSE /\ reqs' = [reqs EXCEPT ![r].pc = "createUser"]
            /\ resp' = {}
            /\ UNCHANGED session
    /\ accepted' = {}
    /\ UNCHANGED <<now, storeUp, nonceStore, users>>

\* users.wallet_address is unique (schema.js:7): an insert of a wallet that
\* has a row is rejected.
NoUniqueWallet(w) == FALSE
WalletTaken(w) == UserByWallet(w) # {}

\* server.js:133-144 with storage.createUser (storage.js:22-28); the insert
\* throws on the unique wallet_address column.
VerifyCreate(r, username) ==
    LET q == reqs[r] IN
    /\ q.pc = "createUser"
    /\ IF ~storeUp \/ WalletTaken(q.wallet)
       THEN /\ resp' = {AcceptedResponse(r, q.wallet, 500, "store")}
            /\ UNCHANGED <<users, session>>
       ELSE LET user == [id |-> NextId(users), walletAddress |-> q.wallet,
                         username |-> IF username # NoName THEN username
                                      ELSE DefaultName(q.wallet)] IN
            /\ users' = users \cup {user}
            /\ session' = [session EXCEPT ![q.sess] = user.id]
            /\ resp' = {AcceptedResponse(r, q.wallet, 200, "")}
    /\ reqs' = [reqs EXCEPT ![r] = IdleReq]
    /\ accepted' = {}
    /\ UNCHANGED <<now, storeUp, nonceStore>>

\* ======================================================================
\* The Socket.io relay (server.js:177-633) over the store (storage.js)
\* ======================================================================

\* ------------------------------------------------------------------ bounds
\* Rows the rooms and room_members tables can hold, and ids the messages and
\* reactions sequences can hand out.
MaxRooms == 3
MaxMembers == 6
MaxMessages == 2
MaxReactions == 2

\* What a client can put in a payload field that the server runs through
\* parseInt: text, as a character sequence.
Digits == {"0", "1", "2", "3", "4", "5", "6", "7", "8", "9"}
DigitValue(c) ==
    CASE c = "0" -> 0 [] c = "1" -> 1 [] c = "2" -> 2 [] c = "3" -> 3
      [] c = "4" -> 4 [] c = "5" -> 5 [] c = "6" -> 6 [] c = "7" -> 7
      [] c = "8" -> 8 [] c = "9" -> 9
\* NaN, as a number outside every id.
NaN == -1
\* parseInt(text): the number written by the longest prefix of digits, NaN
\* when there is none.
RECURSIVE ParseDigits(_, _)
ParseDigits(text, acc) ==
    IF text = <<>> \/ Head(text) \notin Digits THEN acc
    ELSE ParseDigits(Tail(text), 10 * acc + DigitValue(Head(text)))
ParseInt(text) ==
    IF text = <<>> \/ Head(text) \notin Digits THEN NaN
    ELSE ParseDigits(text, 0)
IdText == {<<"1">>, <<"2">>, <<"3">>, <<"2", "x">>, <<"x">>}

\* The payload of an emitted event; the fields an event does not carry keep
\* these values.
NoPayload ==
    [user |-> 0, message |-> 0, reaction |-> 0, rooms |-> {}, seen |-> <<>>,
     wallet |-> <<>>]
\* socket.emit / io.to(room).emit / socket.to(room).emit / socket.broadcast.emit
Emit(ev, kind, room, conn, msg, payload) ==
    [ev |-> ev, kind |-> kind, room |-> room, conn |-> conn, msg |-> msg,
     payload |-> payload]
ToSocket(c, ev, msg, payload) == Emit(ev, "socket", 0, c, msg, payload)
ToRoom(r, ev, payload) == Emit(ev, "room", r, "-", "", payload)
ToRoomExcept(r, c, ev, payload) == Emit(ev, "room-except", r, c, "", payload)
ToOthers(c, ev, payload) == Emit(ev, "all-except", 0, c, "", payload)
ErrorTo(c, msg) == ToSocket(c, "error", msg, NoPayload)

\* A suspended handler: where it is, its socket, and its locals (userId,
\* roomIdNum; arg: the numbers it holds, text: the text it holds, flag).
IdleTask ==
    [pc |-> "idle", conn |-> "-", userId |-> 0, roomId |-> 0, arg |-> <<>>,
     text |-> <<>>, flag |-> FALSE]
Task(pc, c, userId, roomId, arg) ==
    [IdleTask EXCEPT !.pc = pc, !.conn = c, !.userId = userId,
                     !.roomId = roomId, !.arg = arg]
\* A handler that suspends takes the first free slot.
FreeSlot(t) ==
    /\ tasks[t].pc = "idle"
    /\ \A q \in Tasks : q < t => tasks[q].pc # "idle"
\* The handler ends (returns).
End(t) == tasks' = [tasks EXCEPT ![t] = IdleTask]
Goto(t, pc) == tasks' = [tasks EXCEPT ![t].pc = pc]
\* The handler's catch block: one error event to its own socket.
Catch(t, msg) ==
    /\ emits' = {ErrorTo(tasks[t].conn, msg)}
    /\ End(t)

\* storage.getRoom (storage.js:31-34)
RoomById(id) == {r \in rooms : r.id = id}
\* storage.isRoomMember (storage.js:119-126)
AnyoneIsRoomMember(roomId, userId) == TRUE
IsRoomMember(roomId, userId) ==
    \E m \in roomMembers : m.roomId = roomId /\ m.userId = userId
\* A getUserRooms without its WHERE clause: every room.
EveryRoom(userId) == {r.id : r \in rooms}
\* storage.getUserRooms (storage.js:36-44): the ids of the joined rows
UserRooms(userId) ==
    {m.roomId : m \in {x \in roomMembers : x.userId = userId}}
\* storage.addRoomMember (storage.js:103-107): the inserted row.  The table
\* has no unique constraint on (room_id, user_id) (schema.js:20-25).
\* No query reads room_members.id: a row is told from its duplicates by a
\* copy number instead of the serial id.
MemberRow(roomId, userId) ==
    [roomId |-> roomId, userId |-> userId,
     copy |-> 1 + Cardinality({m \in roomMembers :
                                 m.roomId = roomId /\ m.userId = userId})]
\* The foreign keys of room_members (schema.js:22-23).
MemberInsertOk(roomId, userId) ==
    /\ storeUp
    /\ RoomById(roomId) # {}
    /\ UserById(userId) # {}
\* storage.createRoom / ensurePublicRoom insert (storage.js:46-52, 64-72).
\* The room's name is only echoed to clients and is left out.
RoomRow(isGroup, isPublic, createdBy) ==
    [id |-> NextId(rooms), isGroup |-> isGroup, isPublic |-> isPublic,
     createdBy |-> createdBy]
PublicRooms == {r \in rooms : r.isPublic}

\* A findPrivateRoom whose select sees no room.
NoPrivateRooms(userId) == <<>>

\* storage.findPrivateRoom, the select (storage.js:79-89): one room id per
\* membership row of the user in a room that is neither group nor public.
RECURSIVE RoomsOfRows(_)
RoomsOfRows(rows) ==
    IF rows = {} THEN <<>>
    ELSE LET first == CHOOSE m \in rows : \A x \in rows :
                          \/ m.roomId < x.roomId
                          \/ m.roomId = x.roomId /\ m.copy <= x.copy
         IN <<first.roomId>> \o RoomsOfRows(rows \ {first})
PrivateRoomsOf(userId) ==
    RoomsOfRows({m \in roomMembers :
                    /\ m.userId = userId
                    /\ \E r \in rooms : r.id = m.roomId /\ ~r.isGroup /\ ~r.isPublic})

\* A falsy expiresAt in the payload: the message gets expires_at = null.
NoExpiry == -1
\* storage.createMessage (storage.js:129-135): the inserted row; created_at
\* defaults to now (schema.js:32).  The content is only echoed to clients.
MessageRow(roomId, userId, expiresAt) ==
    [id |-> serial.messages + 1, roomId |-> roomId, userId |-> userId,
     createdAt |-> now, expiresAt |-> expiresAt]

\* storage.addReaction, the select (storage.js:164-171)
NoExistingReactions(messageId, userId, emoji) == {}
ExistingReactions(messageId, userId, emoji) ==
    {r \in reactions :
        r.messageId = messageId /\ r.userId = userId /\ r.emoji = emoji}
\* storage.addReaction, the inserted row (storage.js:177-180)
ReactionRow(messageId, userId, emoji) ==
    [id |-> serial.reactions + 1, messageId |-> messageId, userId |-> userId,
     emoji |-> emoji]

\* The ids of a set of rows, lowest first.
RECURSIVE SortedIds(_)
SortedIds(ids) ==
    IF ids = {} THEN <<>>
    ELSE LET least == CHOOSE i \in ids : \A j \in ids : i <= j IN
         <<least>> \o SortedIds(ids \ {least})
\* storage.getRoomMessages (storage.js:137-146): the newest PageLimit messages
\* of the room, oldest first.  Ids grow with created_at, which orders rows
\* created at the same instant by id.
PageLimit == 50
\* A getRoomMessages that finds nothing.
NoRoomMessages(roomId) == <<>>
RoomMessages(roomId) ==
    LET inRoom == {m.id : m \in {x \in messages : x.roomId = roomId}}
        newest == {i \in inRoom :
                      Cardinality({j \in inRoom : j > i}) < PageLimit}
    IN SortedIds(newest)

\* storage.getRoomMessages(roomId, limit) (storage.js:137-146) as the query
\* computes it.  ORDER BY created_at DESC leaves the order of rows created
\* at the same instant open: every order the database may give.
RECURSIVE Descending(_)
Descending(rows) ==
    IF rows = {} THEN {<<>>}
    ELSE UNION {{<<m.id>> \o s : s \in Descending(rows \ {m})} :
                   m \in {x \in rows : \A y \in rows : x.createdAt >= y.createdAt}}
\* .limit(limit)
Limit(s, limit) == SubSeq(s, 1, IF limit < Len(s) THEN limit ELSE Len(s))
\* roomMessages.reverse()
AsFetched(s) == s
Reverse(s) == [i \in 1..Len(s) |-> s[Len(s) + 1 - i]]
GetRoomMessages(roomId, limit) ==
    {Reverse(Limit(s, limit)) :
        s \in Descending({m \in messages : m.roomId = roomId})}

RelayInit ==
    /\ socks = [c \in Conns |-> [state |-> "new", sess |-> "-", userId |-> 0]]
    /\ socketToUser = [c \in Conns |-> 0]
    /\ joined = [c \in Conns |-> {}]
    /\ rooms = {}
    /\ roomMembers = {}
    /\ messages = {}
    /\ reactions = {}
    /\ serial = [messages |-> 0, reactions |-> 0]
    /\ tasks = [t \in Tasks |-> IdleTask]
    /\ emits = {}

\* io.on('connection') (server.js:177) behind io.engine.use(sessionMiddleware)
\* (server.js:49): the socket's request carries the session as loaded at the
\* handshake.
Connect(c, s) ==
    /\ socks[c].state = "new"
    /\ socks' = [socks EXCEPT ![c] = [state |-> "open", sess |-> s,
                                      userId |-> session[s]]]
    /\ emits' = {}
    /\ UNCHANGED <<socketToUser, joined, storeVars, tasks>>

\* ----------------------------------------------------- socket.on('auth')
\* server.js:184: the user id comes from the session, never from the payload.
BoundUserFromPayload(sessionUserId, claimedUserId) == claimedUserId
BoundUser(sessionUserId, claimedUserId) == sessionUserId

\* server.js:181-192: to the first await.  `claimed` is a user id the client
\* may put in the payload.
AuthEvent(t, c, claimed) ==
    /\ socks[c].state = "open"
    /\ LET userId == BoundUser(socks[c].userId, claimed) IN
       IF userId = 0
       THEN /\ emits' = {ErrorTo(c, "Not authenticated")}
            /\ UNCHANGED tasks
       ELSE /\ FreeSlot(t)
            /\ tasks' = [tasks EXCEPT ![t] = Task("auth:getUser", c, userId, 0, <<>>)]
            /\ emits' = {}
    /\ UNCHANGED <<socks, socketToUser, joined, storeVars>>

\* server.js:192-203: getUser answers; the socket is mapped to the user.
AuthGetUser(t) ==
    LET k == tasks[t] IN
    /\ k.pc = "auth:getUser"
    /\ IF ~storeUp
       THEN Catch(t, "Authentication failed") /\ UNCHANGED socketToUser
       ELSE IF UserById(k.userId) = {}
       THEN /\ emits' = {ErrorTo(k.conn, "User not found")}
            /\ End(t)
            /\ UNCHANGED socketToUser
       ELSE LET user == CHOOSE u \in UserById(k.userId) : TRUE IN
            /\ socketToUser' = [socketToUser EXCEPT ![k.conn] = user.id]
            /\ Goto(t, "auth:findPublic")
            /\ emits' = {}
    /\ UNCHANGED <<socks, joined, storeVars>>

\* storage.ensurePublicRoom, the select (storage.js:55-62); `[publicRoom]` is
\* the first row of a select without ORDER BY: any of the public rooms.
AuthFindPublic(t) ==
    LET k == tasks[t] IN
    /\ k.pc = "auth:findPublic"
    /\ IF ~storeUp
       THEN Catch(t, "Authentication failed")
       ELSE IF PublicRooms # {}
       THEN \E publicRoom \in PublicRooms :
               /\ tasks' = [tasks EXCEPT ![t].pc = "auth:isMember",
                                         ![t].roomId = publicRoom.id]
               /\ emits' = {}
       ELSE /\ Goto(t, "auth:insertPublic")
            /\ emits' = {}
    /\ UNCHANGED <<socks, socketToUser, joined, storeVars>>

\* storage.ensurePublicRoom, the insert (storage.js:64-74).  The table has no
\* constraint that keeps is_public = true to one row (schema.js:11-18).
AuthInsertPublic(t) ==
    LET k == tasks[t] IN
    /\ k.pc = "auth:insertPublic"
    /\ IF ~storeUp
       THEN Catch(t, "Authentication failed") /\ UNCHANGED rooms
       ELSE LET newPublicRoom == RoomRow(TRUE, TRUE, 0) IN
            /\ Cardinality(rooms) < MaxRooms
            /\ rooms' = rooms \cup {newPublicRoom}
            /\ tasks' = [tasks EXCEPT ![t].pc = "auth:isMember",
                                      ![t].roomId = newPublicRoom.id]
            /\ emits' = {}
    /\ UNCHANGED <<socks, socketToUser, joined, roomMembers, messages,
                   reactions, serial>>

\* server.js:204-208: isRoomMember answers.
AuthIsMember(t) ==
    LET k == tasks[t] IN
    /\ k.pc = "auth:isMember"
    /\ IF ~storeUp
       THEN Catch(t, "Authentication failed")
       ELSE /\ Goto(t, IF IsRoomMember(k.roomId, k.userId)
                       THEN "auth:getUserRooms" ELSE "auth:addMember")
            /\ emits' = {}
    /\ UNCHANGED <<socks, socketToUser, joined, storeVars>>

\* server.js:207: addRoomMember(publicRoom.id, user.id)
AuthAddMember(t) ==
    LET k == tasks[t] IN
    /\ k.pc = "auth:addMember"
    /\ IF ~MemberInsertOk(k.roomId, k.userId)
       THEN Catch(t, "Authentication failed") /\ UNCHANGED roomMembers
       ELSE /\ Cardinality(roomMembers) < MaxMembers
            /\ roomMembers' = roomMembers \cup {MemberRow(k.roomId, k.userId)}
            /\ Goto(t, "auth:getUserRooms")
            /\ emits' = {}
    /\ UNCHANGED <<socks, socketToUser, joined, rooms, messages, reactions,
                   serial>>

\* server.js:211-235: getUserRooms answers; the socket joins every room, gets
\* auth_success, and everyone else user_online.
AuthGetUserRooms(t) ==
    LET k == tasks[t] IN
    /\ k.pc = "auth:getUserRooms"
    /\ IF ~storeUp
       THEN Catch(t, "Authentication failed") /\ UNCHANGED joined
       ELSE LET userRooms == UserRooms(k.userId) IN
            /\ joined' = [joined EXCEPT ![k.conn] = @ \cup userRooms]
            /\ emits' = {ToSocket(k.conn, "auth_success", "",
                             [NoPayload EXCEPT !.user = k.userId,
                                               !.rooms = userRooms]),
                         ToOthers(k.conn, "user_online",
                             [NoPayload EXCEPT !.user = k.userId])}
            /\ End(t)
    /\ UNCHANGED <<socks, socketToUser, storeVars>>

\* The same await in two steps, for the time between the database running
\* the select and the handler resuming with its rows.
\* storage.getUserRooms (storage.js:36-44): the select runs; arg holds the
\* ids of the rooms it found.
AuthSelectUserRooms(t) ==
    LET k == tasks[t] IN
    /\ k.pc = "auth:getUserRooms"
    /\ IF ~storeUp
       THEN Catch(t, "Authentication failed")
       ELSE /\ tasks' = [tasks EXCEPT ![t].pc = "auth:userRooms",
                                      ![t].arg = SortedIds(UserRooms(k.userId))]
            /\ emits' = {}
    /\ UNCHANGED <<socks, socketToUser, joined, storeVars>>

\* server.js:211-235: the handler resumes with the rows; the socket joins
\* every room in them, gets auth_success, and everyone else user_online.
AuthJoinUserRooms(t) ==
    LET k == tasks[t]
        userRooms == {k.arg[i] : i \in 1..Len(k.arg)}
    IN
    /\ k.pc = "auth:userRooms"
    /\ joined' = [joined EXCEPT ![k.conn] = @ \cup userRooms]
    /\ emits' = {ToSocket(k.conn, "auth_success", "",
                     [NoPayload EXCEPT !.user = k.userId, !.rooms = userRooms]),
                 ToOthers(k.conn, "user_online",
                     [NoPayload EXCEPT !.user = k.userId])}
    /\ End(t)
    /\ UNCHANGED <<socks, socketToUser, storeVars>>

\* ----------------------------------------------- socket.on('disconnect')
\* server.js:610-613.  Socket.io has taken the socket out of its rooms by the
\* time the event fires.
Disconnect(t, c) ==
    /\ socks[c].state = "open"
    /\ socks' = [socks EXCEPT ![c].state = "closed"]
    /\ joined' = [joined EXCEPT ![c] = {}]
    /\ IF socketToUser[c] # 0
       THEN /\ FreeSlot(t)
            /\ tasks' = [tasks EXCEPT ![t] =
                   Task("disconnect:getUser", c, socketToUser[c], 0, <<>>)]
       ELSE UNCHANGED tasks
    /\ emits' = {}
    /\ UNCHANGED <<socketToUser, storeVars>>

\* server.js:615-630: getUser answers; the entry is deleted unless it threw.
DisconnectGetUser(t) ==
    LET k == tasks[t] IN
    /\ k.pc = "disconnect:getUser"
    /\ IF ~storeUp
       THEN /\ emits' = {}
            /\ UNCHANGED socketToUser
       ELSE /\ emits' = IF UserById(k.userId) # {}
                        THEN {ToOthers(k.conn, "user_offline",
                                  [NoPayload EXCEPT !.user = k.userId])}
                        ELSE {}
            /\ socketToUser' = [socketToUser EXCEPT ![k.conn] = 0]
    /\ End(t)
    /\ UNCHANGED <<socks, joined, storeVars>>

\* ---------------------------------------------- socket.on('create_room')
\* server.js:298-310: to the first await.
CreateRoomEvent(t, c, isGroup) ==
    /\ socks[c].state = "open"
    /\ IF socketToUser[c] = 0
       THEN /\ emits' = {ErrorTo(c, "Not authenticated")}
            /\ UNCHANGED tasks
       ELSE /\ FreeSlot(t)
            /\ tasks' = [tasks EXCEPT ![t] =
                   [Task("create_room:createRoom", c, socketToUser[c], 0, <<>>)
                       EXCEPT !.flag = isGroup]]
            /\ emits' = {}
    /\ UNCHANGED <<socks, socketToUser, joined, storeVars>>

\* server.js:310-317: createRoom answers (created_by references users).
CreateRoomInsert(t) ==
    LET k == tasks[t] IN
    /\ k.pc = "create_room:createRoom"
    /\ IF ~storeUp \/ UserById(k.userId) = {}
       THEN Catch(t, "Failed to create room") /\ UNCHANGED rooms
       ELSE LET room == RoomRow(k.flag, FALSE, k.userId) IN
            /\ Cardinality(rooms) < MaxRooms
            /\ rooms' = rooms \cup {room}
            /\ tasks' = [tasks EXCEPT ![t].pc = "create_room:addMember",
                                      ![t].roomId = room.id]
            /\ emits' = {}
    /\ UNCHANGED <<socks, socketToUser, joined, roomMembers, messages,
                   reactions, serial>>

\* server.js:317-324: addRoomMember answers; the socket joins the room and
\* gets room_created.
CreateRoomAddMember(t) ==
    LET k == tasks[t] IN
    /\ k.pc = "create_room:addMember"
    /\ IF ~MemberInsertOk(k.roomId, k.userId)
       THEN Catch(t, "Failed to create room") /\ UNCHANGED <<roomMembers, joined>>
       ELSE /\ Cardinality(roomMembers) < MaxMembers
            /\ roomMembers' = roomMembers \cup {MemberRow(k.roomId, k.userId)}
            /\ joined' = [joined EXCEPT ![k.conn] = @ \cup {k.roomId}]
            /\ emits' = {ToSocket(k.conn, "room_created", "",
                             [NoPayload EXCEPT !.rooms = {k.roomId}])}
            /\ End(t)
    /\ UNCHANGED <<socks, socketToUser, rooms, messages, reactions, serial>>

\* ------------------------------------------------ socket.on('join_room')
\* server.js:332-344: to the first await.  `roomId` is the payload's text.
JoinRoomEvent(t, c, roomId) ==
    /\ socks[c].state = "open"
    /\ IF socketToUser[c] = 0
       THEN /\ emits' = {ErrorTo(c, "Not authenticated")}
            /\ UNCHANGED tasks
       ELSE /\ FreeSlot(t)
            /\ tasks' = [tasks EXCEPT ![t] =
                   Task("join_room:getRoom", c, socketToUser[c],
                        ParseInt(roomId), <<>>)]
            /\ emits' = {}
    /\ UNCHANGED <<socks, socketToUser, joined, storeVars>>

\* server.js:344-352: getRoom answers; the query throws on NaN.
JoinGetRoom(t) ==
    LET k == tasks[t] IN
    /\ k.pc = "join_room:getRoom"
    /\ IF ~storeUp \/ k.roomId = NaN
       THEN Catch(t, "Failed to join room")
       ELSE IF RoomById(k.roomId) = {}
       THEN /\ emits' = {ErrorTo(k.conn, "Room not found")}
            /\ End(t)
       ELSE /\ Goto(t, "join_room:isMember")
            /\ emits' = {}
    /\ UNCHANGED <<socks, socketToUser, joined, storeVars>>

\* server.js:352-363: isRoomMember answers; a member's socket joins the room.
JoinIsMember(t) ==
    LET k == tasks[t] IN
    /\ k.pc = "join_room:isMember"
    /\ IF ~storeUp
       THEN Catch(t, "Failed to join room") /\ UNCHANGED joined
       ELSE IF IsRoomMember(k.roomId, k.userId)
       THEN /\ joined' = [joined EXCEPT ![k.conn] = @ \cup {k.roomId}]
            /\ Goto(t, "join_room:getRoomMessages")
            /\ emits' = {}
       ELSE /\ Goto(t, "join_room:addMember")
            /\ emits' = {}
            /\ UNCHANGED joined
    /\ UNCHANGED <<socks, socketToUser, storeVars>>

\* server.js:356-363: addRoomMember answers; the socket joins the room.
JoinAddMember(t) ==
    LET k == tasks[t] IN
    /\ k.pc = "join_room:addMember"
    /\ IF ~MemberInsertOk(k.roomId, k.userId)
       THEN Catch(t, "Failed to join room") /\ UNCHANGED <<roomMembers, joined>>
       ELSE /\ Cardinality(roomMembers) < MaxMembers
            /\ roomMembers' = roomMembers \cup {MemberRow(k.roomId, k.userId)}
            /\ joined' = [joined EXCEPT ![k.conn] = @ \cup {k.roomId}]
            /\ Goto(t, "join_room:getRoomMessages")
            /\ emits' = {}
    /\ UNCHANGED <<socks, socketToUser, rooms, messages, reactions, serial>>

\* server.js:363-366: getRoomMessages answers; the handler keeps the ids.
JoinGetRoomMessages(t) ==
    LET k == tasks[t] IN
    /\ k.pc = "join_room:getRoomMessages"
    /\ IF ~storeUp
       THEN Catch(t, "Failed to join room")
       ELSE /\ tasks' = [tasks EXCEPT ![t].pc = "join_room:getRoomMembers",
                                      ![t].arg = RoomMessages(k.roomId)]
            /\ emits' = {}
    /\ UNCHANGED <<socks, socketToUser, joined, storeVars>>

\* server.js:366-370: getRoomMembers answers (the member list is only echoed).
JoinGetRoomMembers(t) ==
    LET k == tasks[t] IN
    /\ k.pc = "join_room:getRoomMembers"
    /\ IF ~storeUp
       THEN Catch(t, "Failed to join room")
       ELSE /\ Goto(t, "join_room:getMessagesReactions")
            /\ emits' = {}
    /\ UNCHANGED <<socks, socketToUser, joined, storeVars>>

\* server.js:370-389: getMessagesReactions answers (without a query when
\* there is no message, storage.js:216-218); the socket gets room_joined.
JoinGetMessagesReactions(t) ==
    LET k == tasks[t] IN
    /\ k.pc = "join_room:getMessagesReactions"
    /\ IF ~storeUp /\ k.arg # <<>>
       THEN Catch(t, "Failed to join room")
       ELSE /\ Goto(t, "join_room:getUser")
            /\ emits' = {ToSocket(k.conn, "room_joined", "",
                             [NoPayload EXCEPT !.rooms = {k.roomId},
                                               !.seen = k.arg])}
    /\ UNCHANGED <<socks, socketToUser, joined, storeVars>>

\* server.js:389-395: getUser answers; the others in the room are told.
JoinGetUser(t) ==
    LET k == tasks[t] IN
    /\ k.pc = "join_room:getUser"
    /\ IF ~storeUp \/ UserById(k.userId) = {}
       THEN Catch(t, "Failed to join room")
       ELSE /\ emits' = {ToRoomExcept(k.roomId, k.conn, "user_joined_room",
                             [NoPayload EXCEPT !.user = k.userId])}
            /\ End(t)
    /\ UNCHANGED <<socks, socketToUser, joined, storeVars>>

\* ---------------------------------------- socket.on('create_private_chat')
\* server.js:243-255: to the first await.
PrivateChatEvent(t, c, recipientWallet) ==
    /\ socks[c].state = "open"
    /\ IF socketToUser[c] = 0
       THEN /\ emits' = {ErrorTo(c, "Not authenticated")}
            /\ UNCHANGED tasks
       ELSE /\ FreeSlot(t)
            /\ tasks' = [tasks EXCEPT ![t] =
                   [Task("private:getUserByWallet", c, socketToUser[c], 0, <<>>)
                       EXCEPT !.text = recipientWallet]]
            /\ emits' = {}
    /\ UNCHANGED <<socks, socketToUser, joined, storeVars>>

\* server.js:255-264: getUserByWallet answers; arg[1] is recipient.id.
PrivateGetUserByWallet(t) ==
    LET k == tasks[t] IN
    /\ k.pc = "private:getUserByWallet"
    /\ IF ~storeUp
       THEN Catch(t, "Failed to create private chat")
       ELSE IF UserByWallet(k.text) = {}
       THEN /\ emits' = {ToSocket(k.conn, "user_not_found", "",
                             [NoPayload EXCEPT !.wallet = k.text])}
            /\ End(t)
       ELSE LET recipient == CHOOSE u \in UserByWallet(k.text) : TRUE IN
            /\ tasks' = [tasks EXCEPT ![t].pc = "private:findPrivateRoom",
                                      ![t].arg = <<recipient.id>>]
            /\ emits' = {}
    /\ UNCHANGED <<socks, socketToUser, joined, storeVars>>

\* storage.findPrivateRoom, the select (storage.js:79-89): the rooms to check
\* are kept after the recipient id.
PrivateFindPrivateRoom(t) ==
    LET k == tasks[t] IN
    /\ k.pc = "private:findPrivateRoom"
    /\ IF ~storeUp
       THEN Catch(t, "Failed to create private chat")
       ELSE LET userRooms == PrivateRoomsOf(k.userId) IN
            /\ tasks' = [tasks EXCEPT
                   ![t].pc = IF userRooms = <<>> THEN "private:getUser"
                             ELSE "private:isRoomMember",
                   ![t].arg = k.arg \o userRooms]
            /\ emits' = {}
    /\ UNCHANGED <<socks, socketToUser, joined, storeVars>>

\* storage.findPrivateRoom, one turn of the loop (storage.js:92-99), with
\* server.js:266-271 when a room is found.  The select has no ORDER BY: the
\* next room is any of those left.
PrivateIsRoomMember(t) ==
    LET k == tasks[t] IN
    /\ k.pc = "private:isRoomMember"
    /\ IF ~storeUp
       THEN Catch(t, "Failed to create private chat") /\ UNCHANGED joined
       ELSE \E i \in 2..Len(k.arg) :
               LET room == k.arg[i]
                   rest == SubSeq(k.arg, 1, i - 1) \o SubSeq(k.arg, i + 1, Len(k.arg))
               IN IF IsRoomMember(room, k.arg[1])
                  THEN /\ emits' = {ToSocket(k.conn, "room_created", "",
                                        [NoPayload EXCEPT !.rooms = {room}])}
                       /\ joined' = [joined EXCEPT ![k.conn] = @ \cup {room}]
                       /\ End(t)
                  ELSE /\ tasks' = [tasks EXCEPT
                              ![t].pc = IF Len(rest) = 1 THEN "private:getUser"
                                        ELSE "private:isRoomMember",
                              ![t].arg = rest]
                       /\ emits' = {}
                       /\ UNCHANGED joined
    /\ UNCHANGED <<socks, socketToUser, storeVars>>

\* server.js:274-275: getUser answers (currentUser.username throws when the
\* user is gone).
PrivateGetUser(t) ==
    LET k == tasks[t] IN
    /\ k.pc = "private:getUser"
    /\ IF ~storeUp \/ UserById(k.userId) = {}
       THEN Catch(t, "Failed to create private chat")
       ELSE /\ Goto(t, "private:createRoom")
            /\ emits' = {}
    /\ UNCHANGED <<socks, socketToUser, joined, storeVars>>

\* server.js:275-282: createRoom answers.
PrivateCreateRoom(t) ==
    LET k == tasks[t] IN
    /\ k.pc = "private:createRoom"
    /\ IF ~storeUp
       THEN Catch(t, "Failed to create private chat") /\ UNCHANGED rooms
       ELSE LET room == RoomRow(FALSE, FALSE, k.userId) IN
            /\ Cardinality(rooms) < MaxRooms
            /\ rooms' = rooms \cup {room}
            /\ tasks' = [tasks EXCEPT ![t].pc = "private:addCaller",
                                      ![t].roomId = room.id]
            /\ emits' = {}
    /\ UNCHANGED <<socks, socketToUser, joined, roomMembers, messages,
                   reactions, serial>>

\* server.js:282-283: addRoomMember(room.id, userId) answers.
PrivateAddCaller(t) ==
    LET k == tasks[t] IN
    /\ k.pc = "private:addCaller"
    /\ IF ~MemberInsertOk(k.roomId, k.userId)
       THEN Catch(t, "Failed to create private chat") /\ UNCHANGED roomMembers
       ELSE /\ Cardinality(roomMembers) < MaxMembers
            /\ roomMembers' = roomMembers \cup {MemberRow(k.roomId, k.userId)}
            /\ Goto(t, "private:addRecipient")
            /\ emits' = {}
    /\ UNCHANGED <<socks, socketToUser, joined, rooms, messages, reactions,
                   serial>>

\* server.js:283-290: addRoomMember(room.id, recipient.id) answers; the socket
\* joins the room and gets room_created.
PrivateAddRecipient(t) ==
    LET k == tasks[t] IN
    /\ k.pc = "private:addRecipient"
    /\ IF ~MemberInsertOk(k.roomId, k.arg[1])
       THEN Catch(t, "Failed to create private chat")
            /\ UNCHANGED <<roomMembers, joined>>
       ELSE /\ Cardinality(roomMembers) < MaxMembers
            /\ roomMembers' = roomMembers \cup {MemberRow(k.roomId, k.arg[1])}
            /\ joined' = [joined EXCEPT ![k.conn] = @ \cup {k.roomId}]
            /\ emits' = {ToSocket(k.conn, "room_created", "",
                             [NoPayload EXCEPT !.rooms = {k.roomId}])}
            /\ End(t)
    /\ UNCHANGED <<socks, socketToUser, rooms, messages, reactions, serial>>

\* ---------------------------------------------- socket.on('send_message')
\* server.js:403-416: to the first await.  `roomId` is the payload's text,
\* `expiresAt` its expiry (NoExpiry: not given).
SendMessageEvent(t, c, roomId, expiresAt) ==
    /\ socks[c].state = "open"
    /\ IF socketToUser[c] = 0
       THEN /\ emits' = {ErrorTo(c, "Not authenticated")}
            /\ UNCHANGED tasks
       ELSE /\ FreeSlot(t)
            /\ tasks' = [tasks EXCEPT ![t] =
                   Task("send_message:isRoomMember", c, socketToUser[c],
                        ParseInt(roomId), <<expiresAt>>)]
            /\ emits' = {}
    /\ UNCHANGED <<socks, socketToUser, joined, storeVars>>

\* server.js:416-424: isRoomMember answers; the query throws on NaN.
SendIsRoomMember(t) ==
    LET k == tasks[t] IN
    /\ k.pc = "send_message:isRoomMember"
    /\ IF ~storeUp \/ k.roomId = NaN
       THEN Catch(t, "Failed to send message")
       ELSE IF ~IsRoomMember(k.roomId, k.userId)
       THEN /\ emits' = {ErrorTo(k.conn, "Not a member of this room")}
            /\ End(t)
       ELSE /\ Goto(t, "send_message:createMessage")
            /\ emits' = {}
    /\ UNCHANGED <<socks, socketToUser, joined, storeVars>>

\* server.js:424-432: createMessage answers; the handler keeps message.id.
SendCreateMessage(t) ==
    LET k == tasks[t] IN
    /\ k.pc = "send_message:createMessage"
    /\ IF ~storeUp \/ RoomById(k.roomId) = {} \/ UserById(k.userId) = {}
       THEN Catch(t, "Failed to send message") /\ UNCHANGED <<messages, serial>>
       ELSE LET message == MessageRow(k.roomId, k.userId, k.arg[1]) IN
            /\ serial.messages < MaxMessages
            /\ messages' = messages \cup {message}
            /\ serial' = [serial EXCEPT !.messages = message.id]
            /\ tasks' = [tasks EXCEPT ![t].pc = "send_message:getUser",
                                      ![t].arg = <<message.id>>]
            /\ emits' = {}
    /\ UNCHANGED <<socks, socketToUser, joined, rooms, roomMembers, reactions>>

\* server.js:432-447: getUser answers; new_message goes to the room.
SendGetUser(t) ==
    LET k == tasks[t] IN
    /\ k.pc = "send_message:getUser"
    /\ IF ~storeUp \/ UserById(k.userId) = {}
       THEN Catch(t, "Failed to send message")
       ELSE /\ emits' = {ToRoom(k.roomId, "new_message",
                             [NoPayload EXCEPT !.message = k.arg[1],
                                               !.user = k.userId])}
            /\ End(t)
    /\ UNCHANGED <<socks, socketToUser, joined, storeVars>>

\* ---------------------------------------------- socket.on('add_reaction')
\* server.js:492-506: to the first await.  arg[1] is messageIdNum.
AddReactionEvent(t, c, messageId, emoji, roomId) ==
    /\ socks[c].state = "open"
    /\ IF socketToUser[c] = 0
       THEN /\ emits' = {ErrorTo(c, "Not authenticated")}
            /\ UNCHANGED tasks
       ELSE /\ FreeSlot(t)
            /\ tasks' = [tasks EXCEPT ![t] =
                   [Task("add_reaction:select", c, socketToUser[c],
                         ParseInt(roomId), <<ParseInt(messageId)>>)
                       EXCEPT !.text = <<emoji>>]]
            /\ emits' = {}
    /\ UNCHANGED <<socks, socketToUser, joined, storeVars>>

\* storage.addReaction, the select (storage.js:164-175): `[existing]` is any
\* of the rows found; arg[2] is the id of the reaction returned.
AddReactionSelect(t) ==
    LET k == tasks[t]
        found == ExistingReactions(k.arg[1], k.userId, k.text[1])
    IN
    /\ k.pc = "add_reaction:select"
    /\ IF ~storeUp \/ k.arg[1] = NaN
       THEN Catch(t, "Failed to add reaction")
       ELSE IF found # {}
       THEN \E existing \in found :
               /\ tasks' = [tasks EXCEPT ![t].pc = "add_reaction:getUser",
                                         ![t].arg = <<k.arg[1], existing.id>>]
               /\ emits' = {}
       ELSE /\ Goto(t, "add_reaction:insert")
            /\ emits' = {}
    /\ UNCHANGED <<socks, socketToUser, joined, storeVars>>

\* storage.addReaction, the insert (storage.js:177-182); message_id and
\* user_id are foreign keys (schema.js:38-39).
AddReactionInsert(t) ==
    LET k == tasks[t] IN
    /\ k.pc = "add_reaction:insert"
    /\ IF \/ ~storeUp
          \/ \A m \in messages : m.id # k.arg[1]
          \/ UserById(k.userId) = {}
       THEN Catch(t, "Failed to add reaction") /\ UNCHANGED <<reactions, serial>>
       ELSE LET reaction == ReactionRow(k.arg[1], k.userId, k.text[1]) IN
            /\ serial.reactions < MaxReactions
            /\ reactions' = reactions \cup {reaction}
            /\ serial' = [serial EXCEPT !.reactions = reaction.id]
            /\ tasks' = [tasks EXCEPT ![t].pc = "add_reaction:getUser",
                                      ![t].arg = <<k.arg[1], reaction.id>>]
            /\ emits' = {}
    /\ UNCHANGED <<socks, socketToUser, joined, rooms, roomMembers, messages>>

\* server.js:509-523: getUser answers; reaction_added goes to the room named
\* in the payload.
AddReactionGetUser(t) ==
    LET k == tasks[t] IN
    /\ k.pc = "add_reaction:getUser"
    /\ IF ~storeUp \/ UserById(k.userId) = {}
       THEN Catch(t, "Failed to add reaction")
       ELSE /\ emits' = {ToRoom(k.roomId, "reaction_added",
                             [NoPayload EXCEPT !.reaction = k.arg[2],
                                               !.message = k.arg[1],
                                               !.user = k.userId])}
            /\ End(t)
    /\ UNCHANGED <<socks, socketToUser, joined, storeVars>>

\* --------------------------------- socket.on('typing') / ('stop_typing')
\* socket.to(roomId.toString()) (server.js:463, 480): the room named by the
\* payload's text as it is, not parsed.
RoomNamed(text) ==
    IF text # <<>> /\ \A i \in 1..Len(text) : text[i] \in Digits
    THEN ParseDigits(text, 0)
    ELSE NaN

\* server.js:455-461: to the await.  An unbound socket gets no answer.
TypingEvent(t, c, roomId) ==
    /\ socks[c].state = "open"
    /\ IF socketToUser[c] = 0
       THEN UNCHANGED tasks
       ELSE /\ FreeSlot(t)
            /\ tasks' = [tasks EXCEPT ![t] =
                   Task("typing:getUser", c, socketToUser[c], RoomNamed(roomId), <<>>)]
    /\ emits' = {}
    /\ UNCHANGED <<socks, socketToUser, joined, storeVars>>

\* server.js:461-469: getUser answers; the others in the room get
\* user_typing.  The catch block only logs.
TypingGetUser(t) ==
    LET k == tasks[t] IN
    /\ k.pc = "typing:getUser"
    /\ emits' = IF ~storeUp \/ UserById(k.userId) = {} THEN {}
                ELSE {ToRoomExcept(k.roomId, k.conn, "user_typing",
                          [NoPayload EXCEPT !.user = k.userId])}
    /\ End(t)
    /\ UNCHANGED <<socks, socketToUser, joined, storeVars>>

\* server.js:472-478: to the await.  An unbound socket gets no answer.
StopTypingEvent(t, c, roomId) ==
    /\ socks[c].state = "open"
    /\ IF socketToUser[c] = 0
       THEN UNCHANGED tasks
       ELSE /\ FreeSlot(t)
            /\ tasks' = [tasks EXCEPT ![t] =
                   Task("stop_typing:getUser", c, socketToUser[c],
                        RoomNamed(roomId), <<>>)]
    /\ emits' = {}
    /\ UNCHANGED <<socks, socketToUser, joined, storeVars>>

\* server.js:478-486: getUser answers; the others in the room get
\* user_stop_typing.  The catch block only logs.
StopTypingGetUser(t) ==
    LET k == tasks[t] IN
    /\ k.pc = "stop_typing:getUser"
    /\ emits' = IF ~storeUp \/ UserById(k.userId) = {} THEN {}
                ELSE {ToRoomExcept(k.roomId, k.conn, "user_stop_typing",
                          [NoPayload EXCEPT !.user = k.userId])}
    /\ End(t)
    /\ UNCHANGED <<socks, socketToUser, joined, storeVars>>

\* -------------------------------------------- socket.on('remove_reaction')
\* server.js:531-545: to the await.
RemoveReactionEvent(t, c, messageId, emoji, roomId) ==
    /\ socks[c].state = "open"
    /\ IF socketToUser[c] = 0
       THEN /\ emits' = {ErrorTo(c, "Not authenticated")}
            /\ UNCHANGED tasks
       ELSE /\ FreeSlot(t)
            /\ tasks' = [tasks EXCEPT ![t] =
                   [Task("remove_reaction:removeReaction", c, socketToUser[c],
                         ParseInt(roomId), <<ParseInt(messageId)>>)
                       EXCEPT !.text = <<emoji>>]]
            /\ emits' = {}
    /\ UNCHANGED <<socks, socketToUser, joined, storeVars>>

\* storage.removeReaction's result (storage.js:195): whether the DELETE
\* returned a row.
AlwaysRemoved(result) == TRUE
Removed(result) == result # {}

\* storage.removeReaction (storage.js:185-196) answers, with server.js:545-561:
\* every row of the triple is deleted; the room named in the payload gets
\* reaction_removed (message, user, and the emoji as its text) when a row was.
RemoveReactionDelete(t) ==
    LET k == tasks[t]
        result == ExistingReactions(k.arg[1], k.userId, k.text[1])
    IN
    /\ k.pc = "remove_reaction:removeReaction"
    /\ IF ~storeUp \/ k.arg[1] = NaN
       THEN Catch(t, "Failed to remove reaction") /\ UNCHANGED reactions
       ELSE /\ reactions' = reactions \ result
            /\ emits' = IF Removed(result)
                        THEN {Emit("reaction_removed", "room", k.roomId, "-",
                                   k.text[1],
                                   [NoPayload EXCEPT !.message = k.arg[1],
                                                     !.user = k.userId])}
                        ELSE {}
            /\ End(t)
    /\ UNCHANGED <<socks, socketToUser, joined, rooms, roomMembers, messages,
                   serial>>

\* ----------------------------------------- socket.on('get_online_users')
\* server.js:566-570: to the await.  No check that the socket is bound; arg
\* is the ids in socketToUser, one getUser call for each.
GetOnlineUsersEvent(t, c) ==
    /\ socks[c].state = "open"
    /\ FreeSlot(t)
    /\ tasks' = [tasks EXCEPT ![t] =
           Task("get_online_users:getUser", c, socketToUser[c], 0,
                SortedIds({socketToUser[x] : x \in Conns} \ {0}))]
    /\ emits' = {}
    /\ UNCHANGED <<socks, socketToUser, joined, storeVars>>

\* server.js:568-576: Promise.all answers; the users found go to the socket,
\* a failure is only logged.
GetOnlineUsersGetUser(t) ==
    LET k == tasks[t]
        found == SelectSeq(k.arg, LAMBDA id : UserById(id) # {})
    IN
    /\ k.pc = "get_online_users:getUser"
    /\ emits' = IF ~storeUp /\ k.arg # <<>> THEN {}
                ELSE {ToSocket(k.conn, "online_users", "",
                          [NoPayload EXCEPT !.seen = found])}
    /\ End(t)
    /\ UNCHANGED <<socks, socketToUser, joined, storeVars>>

\* ------------------------------------------- setInterval(..., 60000) sweep
\* storage.deleteExpiredMessages (storage.js:148-155): the rows the DELETE
\* names, for the `now` the call took.
EveryMessage(at) == messages
ExpiredMessages(at) ==
    {m \in messages : m.expiresAt # NoExpiry /\ m.expiresAt <= at}
\* reactions.message_id references messages.id with no ON DELETE action
\* (schema.js:38): a DELETE naming a message that has a reaction is rejected
\* as a whole.
ReactionsOf(rows) == {r \in reactions : \E m \in rows : r.messageId = m.id}
SweepThrows(at) == ~storeUp \/ ReactionsOf(ExpiredMessages(at)) # {}

\* server.js:636-638 with storage.js:149: the timer fires; the call takes
\* `now` and sends the DELETE.  arg[1] is that `now`.
SweepTick(t) ==
    /\ FreeSlot(t)
    /\ tasks' = [tasks EXCEPT ![t] =
           Task("sweep:deleteExpiredMessages", "-", 0, 0, <<now>>)]
    /\ emits' = {}
    /\ UNCHANGED <<socks, socketToUser, joined, storeVars>>

\* server.js:638-644 with storage.js:150-158: the DELETE answers; the count of
\* deleted rows is logged, a failure is logged.  Nothing is emitted.
SweepDelete(t) ==
    LET k == tasks[t] IN
    /\ k.pc = "sweep:deleteExpiredMessages"
    /\ messages' = IF SweepThrows(k.arg[1]) THEN messages
                   ELSE messages \ ExpiredMessages(k.arg[1])
    /\ emits' = {}
    /\ End(t)
    /\ UNCHANGED <<socks, socketToUser, joined, rooms, roomMembers, reactions,
                   serial>>

\* ======================================================================
\* Specifications
\* ======================================================================

\* What a step of the authentication service leaves alone, and what a step
\* of the relay leaves alone.
HttpFrame == emits' = {} /\ UNCHANGED <<socks, socketToUser, joined, storeVars, tasks>>
RelayFrame ==
    /\ resp' = {}
    /\ accepted' = {}
    /\ UNCHANGED <<now, storeUp, nonceStore, session, users, reqs>>
AuthOnly == HttpFrame /\ UNCHANGED histVars

Init == AuthInit /\ RelayInit /\ HistInit

\* The authentication service: both wallets, two browser sessions and two
\* verify requests in flight, at one instant (every challenge is fresh); the
\* store stays up.
AuthNext ==
    \/ \E w \in WalletInputs, n \in Nonces : IssueChallenge(w, n) /\ AuthOnly
    \/ \E r \in Reqs, s \in Sessions, w \in WalletInputs :
          \E sig \in SigInputs(w) : VerifyStart(r, s, w, sig) /\ AuthOnly
    \/ \E r \in Reqs : VerifyLookup(r) /\ AuthOnly
    \/ \E r \in Reqs : VerifyCreate(r, NoName) /\ AuthOnly

Spec == Init /\ [][AuthNext]_vars

\* The same with the clock running, for one browser session.
ExpiryNext ==
    \/ Tick /\ AuthOnly
    \/ \E w \in WalletInputs, n \in Nonces : IssueChallenge(w, n) /\ AuthOnly
    \/ \E r \in Reqs, w \in WalletInputs :
          \E sig \in SigInputs(w) : VerifyStart(r, "s1", w, sig) /\ AuthOnly
    \/ \E r \in Reqs : VerifyLookup(r) /\ AuthOnly
    \/ \E r \in Reqs : VerifyCreate(r, NoName) /\ AuthOnly

SpecExpiry == Init /\ [][ExpiryNext]_vars

\* The same with the history of accepted signatures recorded, for one
\* browser session and one request at a time.
ObserveSigs ==
    /\ acceptedSigs' = [w \in Wallets |->
          acceptedSigs[w] \cup {a.sig : a \in {x \in accepted' : x.wallet = w}}]
    /\ UNCHANGED <<verifiedIds, swept, heard>>
    /\ HttpFrame

ReplayNext ==
    \/ \E w \in WalletInputs, n \in Nonces : IssueChallenge(w, n) /\ ObserveSigs
    \/ \E w \in WalletInputs : \E sig \in SigInputs(w) :
          VerifyStart(1, "s1", w, sig) /\ ObserveSigs
    \/ VerifyLookup(1) /\ ObserveSigs
    \/ VerifyCreate(1, NoName) /\ ObserveSigs

SpecReplay == Init /\ [][ReplayNext]_vars

\* Re-issued challenges.  The clock runs; challenges are issued for both
\* wallets and verified one request at a time; the nonces of the challenges
\* of W1 that were replaced before being consumed are recorded.
ObserveReissue ==
    /\ heard' = IF /\ \E e \in resp' :
                        e.op = "nonce" /\ e.status = 200 /\ e.wallet = W1
                   /\ \E old \in Stored(W1) :
                        \A i \in 1..Len(heard) : heard[i] # old.nonce
                THEN Append(heard, (CHOOSE old \in Stored(W1) : TRUE).nonce)
                ELSE heard
    /\ UNCHANGED <<acceptedSigs, verifiedIds, swept>>
    /\ HttpFrame

ReissueNext ==
    \/ Tick /\ AuthOnly
    \/ \E w \in Wallets, n \in Nonces : IssueChallenge(w, n) /\ ObserveReissue
    \/ \E w \in Wallets : \E sig \in SigInputs(w) :
          VerifyStart(1, "s1", w, sig) /\ ObserveReissue
    \/ VerifyLookup(1) /\ ObserveReissue
    \/ VerifyCreate(1, NoName) /\ ObserveReissue

SpecReissue == Init /\ [][ReissueNext]_vars

\* Authentication and socket binding together.  Both wallets have
\* authenticated before, from browser session s2 (W1 first); the nonce store
\* is empty again.  They now authenticate in session s1 (one challenge text
\* per wallet, one request at a time) while a socket connects with the cookie
\* of s1, sends auth (any number of times, overlapping) and disconnects.  The
\* user ids a verify stores in a session are recorded.
ProvisionedUsers ==
    {[id |-> 1, walletAddress |-> W1, username |-> DefaultName(W1)],
     [id |-> 2, walletAddress |-> W2, username |-> DefaultName(W2)]}
ProvisionedAuth ==
    /\ now = 0
    /\ storeUp = TRUE
    /\ nonceStore = {}
    /\ users = ProvisionedUsers
    /\ reqs = [r \in Reqs |-> IdleReq]
    /\ resp = {}
    /\ accepted = {}
    /\ acceptedSigs = [w \in Wallets |-> {}]
    /\ swept = <<>>
    /\ heard = <<>>

BindInit ==
    /\ ProvisionedAuth
    /\ session = [s \in Sessions |-> IF s = "s2" THEN 2 ELSE 0]
    /\ verifiedIds = [s \in Sessions |-> IF s = "s2" THEN {1, 2} ELSE {}]
    /\ RelayInit

ObserveSession ==
    /\ verifiedIds' = [s \in Sessions |->
          verifiedIds[s] \cup (IF session'[s] # session[s] THEN {session'[s]} ELSE {})]
    /\ UNCHANGED <<acceptedSigs, swept, heard>>
    /\ HttpFrame
BindFrame == RelayFrame /\ UNCHANGED histVars
\* The user ids a client can claim in a payload.
ClaimedIds == {0, 1, 2}

BindNext ==
    \/ \E w \in Wallets : IssueChallenge(w, "n1") /\ ObserveSession
    \/ \E w \in Wallets, k \in Wallets :
          VerifyStart(1, "s1", w, Sign(k, Message("n1", w))) /\ ObserveSession
    \/ VerifyLookup(1) /\ ObserveSession
    \/ Connect("c1", "s1") /\ BindFrame
    \/ \E t \in Tasks, claimed \in ClaimedIds :
          AuthEvent(t, "c1", claimed) /\ BindFrame
    \/ \E t \in Tasks : AuthGetUser(t) /\ BindFrame
    \/ \E t \in Tasks : AuthFindPublic(t) /\ BindFrame
    \/ \E t \in Tasks : AuthInsertPublic(t) /\ BindFrame
    \/ \E t \in Tasks : AuthIsMember(t) /\ BindFrame
    \/ \E t \in Tasks : AuthAddMember(t) /\ BindFrame
    \/ \E t \in Tasks : AuthGetUserRooms(t) /\ BindFrame
    \/ \E t \in Tasks : Disconnect(t, "c1") /\ BindFrame
    \/ \E t \in Tasks : DisconnectGetUser(t) /\ BindFrame

SpecBind == BindInit /\ [][BindNext]_vars

\* The relay alone.  Both wallets have authenticated, W1 in browser session
\* s1 and W2 in s2; no request is in flight.
RelayReady ==
    /\ ProvisionedAuth
    /\ session = [s \in Sessions |-> IF s = "s1" THEN 1 ELSE 2]
    /\ verifiedIds = [s \in Sessions |-> IF s = "s1" THEN {1} ELSE {2}]
    /\ RelayInit

\* First use of the public room: a socket of each user connects, sends auth
\* (any number of times, overlapping) and disconnects.
PublicNext ==
    \/ Connect("c1", "s1") /\ BindFrame
    \/ Connect("c2", "s2") /\ BindFrame
    \/ \E t \in Tasks, c \in Conns : AuthEvent(t, c, 0) /\ BindFrame
    \/ \E t \in Tasks : AuthGetUser(t) /\ BindFrame
    \/ \E t \in Tasks : AuthFindPublic(t) /\ BindFrame
    \/ \E t \in Tasks : AuthInsertPublic(t) /\ BindFrame
    \/ \E t \in Tasks : AuthIsMember(t) /\ BindFrame
    \/ \E t \in Tasks : AuthAddMember(t) /\ BindFrame
    \/ \E t \in Tasks : AuthGetUserRooms(t) /\ BindFrame
    \/ \E t \in Tasks, c \in Conns : Disconnect(t, c) /\ BindFrame
    \/ \E t \in Tasks : DisconnectGetUser(t) /\ BindFrame

SpecPublic == RelayReady /\ [][PublicNext]_vars

\* Memberships: two sockets of the user of s1 send auth, the first also
\* create_room and join_room, the second also create_private_chat (to the
\* user themselves, to the other user, to a wallet that never connected),
\* overlapping.
JoinTexts == {<<"1">>, <<"2">>, <<"x">>}
MembersNext ==
    \/ \E c \in Conns : Connect(c, "s1") /\ BindFrame
    \/ \E t \in Tasks, c \in Conns : AuthEvent(t, c, 0) /\ BindFrame
    \/ \E t \in Tasks : AuthGetUser(t) /\ BindFrame
    \/ \E t \in Tasks : AuthFindPublic(t) /\ BindFrame
    \/ \E t \in Tasks : AuthInsertPublic(t) /\ BindFrame
    \/ \E t \in Tasks : AuthIsMember(t) /\ BindFrame
    \/ \E t \in Tasks : AuthAddMember(t) /\ BindFrame
    \/ \E t \in Tasks : AuthGetUserRooms(t) /\ BindFrame
    \/ \E t \in Tasks : CreateRoomEvent(t, "c1", TRUE) /\ BindFrame
    \/ \E t \in Tasks : CreateRoomInsert(t) /\ BindFrame
    \/ \E t \in Tasks : CreateRoomAddMember(t) /\ BindFrame
    \/ \E t \in Tasks, roomId \in JoinTexts :
          JoinRoomEvent(t, "c1", roomId) /\ BindFrame
    \/ \E t \in Tasks : JoinGetRoom(t) /\ BindFrame
    \/ \E t \in Tasks : JoinIsMember(t) /\ BindFrame
    \/ \E t \in Tasks : JoinAddMember(t) /\ BindFrame
    \/ \E t \in Tasks : JoinGetRoomMessages(t) /\ BindFrame
    \/ \E t \in Tasks : JoinGetRoomMembers(t) /\ BindFrame
    \/ \E t \in Tasks : JoinGetMessagesReactions(t) /\ BindFrame
    \/ \E t \in Tasks : JoinGetUser(t) /\ BindFrame
    \/ \E t \in Tasks, w \in Wallets \cup {BadWallet} :
          PrivateChatEvent(t, "c2", w) /\ BindFrame
    \/ \E t \in Tasks : PrivateGetUserByWallet(t) /\ BindFrame
    \/ \E t \in Tasks : PrivateFindPrivateRoom(t) /\ BindFrame
    \/ \E t \in Tasks : PrivateIsRoomMember(t) /\ BindFrame
    \/ \E t \in Tasks : PrivateGetUser(t) /\ BindFrame
    \/ \E t \in Tasks : PrivateCreateRoom(t) /\ BindFrame
    \/ \E t \in Tasks : PrivateAddCaller(t) /\ BindFrame
    \/ \E t \in Tasks : PrivateAddRecipient(t) /\ BindFrame

SpecMembers == RelayReady /\ [][MembersNext]_vars

\* Both users are online: a socket of each has connected and completed auth,
\* one after the other, which created the public room and their memberships.
Authed ==
    /\ ProvisionedAuth
    /\ session = [s \in Sessions |-> IF s = "s1" THEN 1 ELSE 2]
    /\ verifiedIds = [s \in Sessions |-> IF s = "s1" THEN {1} ELSE {2}]
    /\ socks = [c \in Conns |->
                  [state |-> "open", sess |-> IF c = "c1" THEN "s1" ELSE "s2",
                   userId |-> IF c = "c1" THEN 1 ELSE 2]]
    /\ socketToUser = [c \in Conns |-> IF c = "c1" THEN 1 ELSE 2]
    /\ joined = [c \in Conns |-> {1}]
    /\ rooms = {[id |-> 1, isGroup |-> TRUE, isPublic |-> TRUE, createdBy |-> 0]}
    /\ roomMembers = {[roomId |-> 1, userId |-> u, copy |-> 1] : u \in {1, 2}}
    /\ messages = {}
    /\ reactions = {}
    /\ serial = [messages |-> 0, reactions |-> 0]
    /\ tasks = [t \in Tasks |-> IdleTask]
    /\ emits = {}

\* Messaging: user 2 creates rooms while user 1 joins rooms and sends
\* messages, to rooms they are in and to rooms they are not in, overlapping.
SendNext ==
    \/ \E t \in Tasks : CreateRoomEvent(t, "c2", TRUE) /\ BindFrame
    \/ \E t \in Tasks : CreateRoomInsert(t) /\ BindFrame
    \/ \E t \in Tasks : CreateRoomAddMember(t) /\ BindFrame
    \/ \E t \in Tasks, roomId \in IdText :
          JoinRoomEvent(t, "c1", roomId) /\ BindFrame
    \/ \E t \in Tasks : JoinGetRoom(t) /\ BindFrame
    \/ \E t \in Tasks : JoinIsMember(t) /\ BindFrame
    \/ \E t \in Tasks : JoinAddMember(t) /\ BindFrame
    \/ \E t \in Tasks : JoinGetRoomMessages(t) /\ BindFrame
    \/ \E t \in Tasks : JoinGetRoomMembers(t) /\ BindFrame
    \/ \E t \in Tasks : JoinGetMessagesReactions(t) /\ BindFrame
    \/ \E t \in Tasks : JoinGetUser(t) /\ BindFrame
    \/ \E t \in Tasks, roomId \in IdText :
          SendMessageEvent(t, "c1", roomId, NoExpiry) /\ BindFrame
    \/ \E t \in Tasks : SendIsRoomMember(t) /\ BindFrame
    \/ \E t \in Tasks : SendCreateMessage(t) /\ BindFrame
    \/ \E t \in Tasks : SendGetUser(t) /\ BindFrame

SpecSend == Authed /\ [][SendNext]_vars

\* Reactions: user 2 has posted message 1 in the public room; both users
\* react to it (and to ids that name no message), overlapping.
Posted ==
    {[id |-> 1, roomId |-> 1, userId |-> 2, createdAt |-> 0,
      expiresAt |-> NoExpiry]}
Reacting ==
    /\ ProvisionedAuth
    /\ session = [s \in Sessions |-> IF s = "s1" THEN 1 ELSE 2]
    /\ verifiedIds = [s \in Sessions |-> IF s = "s1" THEN {1} ELSE {2}]
    /\ socks = [c \in Conns |->
                  [state |-> "open", sess |-> IF c = "c1" THEN "s1" ELSE "s2",
                   userId |-> IF c = "c1" THEN 1 ELSE 2]]
    /\ socketToUser = [c \in Conns |-> IF c = "c1" THEN 1 ELSE 2]
    /\ joined = [c \in Conns |-> {1}]
    /\ rooms = {[id |-> 1, isGroup |-> TRUE, isPublic |-> TRUE, createdBy |-> 0]}
    /\ roomMembers = {[roomId |-> 1, userId |-> u, copy |-> 1] : u \in {1, 2}}
    /\ messages = Posted
    /\ reactions = {}
    /\ serial = [messages |-> 1, reactions |-> 0]
    /\ tasks = [t \in Tasks |-> IdleTask]
    /\ emits = {}
Emojis == {"+", "-"}
MessageTexts == {<<"1">>, <<"2">>, <<"x">>}

ReactNext ==
    \/ \E t \in Tasks, c \in Conns, messageId \in MessageTexts, emoji \in Emojis :
          AddReactionEvent(t, c, messageId, emoji, <<"1">>) /\ BindFrame
    \/ \E t \in Tasks : AddReactionSelect(t) /\ BindFrame
    \/ \E t \in Tasks : AddReactionInsert(t) /\ BindFrame
    \/ \E t \in Tasks : AddReactionGetUser(t) /\ BindFrame

SpecReact == Reacting /\ [][ReactNext]_vars

\* The same with one add_reaction at a time: an event arrives only when the
\* handler of the one before has returned.
NoneSuspended == \A t \in Tasks : tasks[t].pc = "idle"
ReactSeqNext ==
    \/ \E c \in Conns, messageId \in MessageTexts, emoji \in Emojis :
          /\ NoneSuspended
          /\ AddReactionEvent(1, c, messageId, emoji, <<"1">>)
          /\ BindFrame
    \/ AddReactionSelect(1) /\ BindFrame
    \/ AddReactionInsert(1) /\ BindFrame
    \/ AddReactionGetUser(1) /\ BindFrame

SpecReactSeq == Reacting /\ [][ReactSeqNext]_vars

\* Expiring messages.  Both users are online; the clock runs; user 1 posts in
\* the public room with any expiry a client can send (none, past, now,
\* future), user 2 reacts to the messages, one client event at a time, and
\* the sweep timer fires beside them, its DELETE answering at any later step.
\* What each completed sweep deleted is recorded.
MaxSweeps == 2
ExpiryInputs == {NoExpiry, 0, TTL}
NoClientSuspended == \A t \in Tasks : tasks[t].pc = "idle" \/ tasks[t].conn = "-"
SweepFrame ==
    /\ RelayFrame
    /\ UNCHANGED <<acceptedSigs, verifiedIds, swept, heard>>
ObserveSweep(t) ==
    /\ swept' = IF SweepThrows(tasks[t].arg[1]) THEN swept
                ELSE Append(swept, {m.id : m \in messages \ messages'})
    /\ UNCHANGED <<acceptedSigs, verifiedIds, heard>>
    /\ RelayFrame

SweepNext ==
    \/ Tick /\ AuthOnly
    \/ \E t \in Tasks, expiresAt \in ExpiryInputs :
          /\ NoClientSuspended
          /\ SendMessageEvent(t, "c1", <<"1">>, expiresAt)
          /\ SweepFrame
    \/ \E t \in Tasks : SendIsRoomMember(t) /\ SweepFrame
    \/ \E t \in Tasks : SendCreateMessage(t) /\ SweepFrame
    \/ \E t \in Tasks : SendGetUser(t) /\ SweepFrame
    \/ \E t \in Tasks, messageId \in {<<"1">>, <<"2">>} :
          /\ NoClientSuspended
          /\ AddReactionEvent(t, "c2", messageId, "+", <<"1">>)
          /\ SweepFrame
    \/ \E t \in Tasks : AddReactionSelect(t) /\ SweepFrame
    \/ \E t \in Tasks : AddReactionInsert(t) /\ SweepFrame
    \/ \E t \in Tasks : AddReactionGetUser(t) /\ SweepFrame
    \/ \E t \in Tasks : Len(swept) < MaxSweeps /\ SweepTick(t) /\ SweepFrame
    \/ \E t \in Tasks : SweepDelete(t) /\ ObserveSweep(t)

SpecSweep == Authed /\ [][SweepNext]_vars

\* Private chats.  Both users are online and each asks for a private chat
\* with the other (and with a wallet that never connected), overlapping.
PrivateNext ==
    \/ \E t \in Tasks, w \in {W2, BadWallet} :
          PrivateChatEvent(t, "c1", w) /\ BindFrame
    \/ \E t \in Tasks : PrivateChatEvent(t, "c2", W1) /\ BindFrame
    \/ \E t \in Tasks : PrivateGetUserByWallet(t) /\ BindFrame
    \/ \E t \in Tasks : PrivateFindPrivateRoom(t) /\ BindFrame
    \/ \E t \in Tasks : PrivateIsRoomMember(t) /\ BindFrame
    \/ \E t \in Tasks : PrivateGetUser(t) /\ BindFrame
    \/ \E t \in Tasks : PrivateCreateRoom(t) /\ BindFrame
    \/ \E t \in Tasks : PrivateAddCaller(t) /\ BindFrame
    \/ \E t \in Tasks : PrivateAddRecipient(t) /\ BindFrame

SpecPrivate == Authed /\ [][PrivateNext]_vars

\* The same with one create_private_chat at a time; user 1 also asks for a
\* private chat with themselves.
PrivateSeqNext ==
    \/ \E w \in Wallets \cup {BadWallet} :
          NoneSuspended /\ PrivateChatEvent(1, "c1", w) /\ BindFrame
    \/ NoneSuspended /\ PrivateChatEvent(1, "c2", W1) /\ BindFrame
    \/ PrivateGetUserByWallet(1) /\ BindFrame
    \/ PrivateFindPrivateRoom(1) /\ BindFrame
    \/ PrivateIsRoomMember(1) /\ BindFrame
    \/ PrivateGetUser(1) /\ BindFrame
    \/ PrivateCreateRoom(1) /\ BindFrame
    \/ PrivateAddCaller(1) /\ BindFrame
    \/ PrivateAddRecipient(1) /\ BindFrame

SpecPrivateSeq == Authed /\ [][PrivateSeqNext]_vars

\* A socket that never sent auth.  User 1 is online on c1; c2 has connected
\* from the session of user 2 and sent nothing yet.  c1 types, posts and
\* reacts in the public room, c2 sends every room event, one event at a time.
Unbound ==
    /\ ProvisionedAuth
    /\ session = [s \in Sessions |-> IF s = "s1" THEN 1 ELSE 2]
    /\ verifiedIds = [s \in Sessions |-> IF s = "s1" THEN {1} ELSE {2}]
    /\ socks = [c \in Conns |->
                  [state |-> "open", sess |-> IF c = "c1" THEN "s1" ELSE "s2",
                   userId |-> IF c = "c1" THEN 1 ELSE 2]]
    /\ socketToUser = [c \in Conns |-> IF c = "c1" THEN 1 ELSE 0]
    /\ joined = [c \in Conns |-> IF c = "c1" THEN {1} ELSE {}]
    /\ rooms = {[id |-> 1, isGroup |-> TRUE, isPublic |-> TRUE, createdBy |-> 0]}
    /\ roomMembers = {[roomId |-> 1, userId |-> u, copy |-> 1] : u \in {1, 2}}
    /\ messages = Posted
    /\ reactions = {}
    /\ serial = [messages |-> 1, reactions |-> 0]
    /\ tasks = [t \in Tasks |-> IdleTask]
    /\ emits = {}

\* The event a socket has just sent is kept for one step.
Hear(c, ev) ==
    /\ NoneSuspended
    /\ heard' = <<c, ev>>
    /\ UNCHANGED <<acceptedSigs, verifiedIds, swept>>
    /\ RelayFrame
Quiet ==
    /\ heard' = <<>>
    /\ UNCHANGED <<acceptedSigs, verifiedIds, swept>>
    /\ RelayFrame

UnboundNext ==
    \/ \E c \in Conns : TypingEvent(1, c, <<"1">>) /\ Hear(c, "typing")
    \/ TypingGetUser(1) /\ Quiet
    \/ \E c \in Conns : StopTypingEvent(1, c, <<"1">>) /\ Hear(c, "stop_typing")
    \/ StopTypingGetUser(1) /\ Quiet
    \/ \E c \in Conns :
          SendMessageEvent(1, c, <<"1">>, NoExpiry) /\ Hear(c, "send_message")
    \/ SendIsRoomMember(1) /\ Quiet
    \/ SendCreateMessage(1) /\ Quiet
    \/ SendGetUser(1) /\ Quiet
    \/ \E c \in Conns, emoji \in Emojis :
          AddReactionEvent(1, c, <<"1">>, emoji, <<"1">>) /\ Hear(c, "add_reaction")
    \/ AddReactionSelect(1) /\ Quiet
    \/ AddReactionInsert(1) /\ Quiet
    \/ AddReactionGetUser(1) /\ Quiet
    \/ \E c \in Conns, emoji \in Emojis :
          RemoveReactionEvent(1, c, <<"1">>, emoji, <<"1">>)
          /\ Hear(c, "remove_reaction")
    \/ RemoveReactionDelete(1) /\ Quiet
    \/ CreateRoomEvent(1, "c2", TRUE) /\ Hear("c2", "create_room")
    \/ \E w \in Wallets :
          PrivateChatEvent(1, "c2", w) /\ Hear("c2", "create_private_chat")
    \/ \E roomId \in IdText :
          JoinRoomEvent(1, "c2", roomId) /\ Hear("c2", "join_room")

SpecUnbound == Unbound /\ [][UnboundNext]_vars

\* Reactions given and taken back.  Both users are online and react to the
\* posted message, to one that does not exist and to a malformed id, and take
\* reactions back, the handlers overlapping.
UnreactNext ==
    \/ \E t \in Tasks, c \in Conns, emoji \in Emojis :
          AddReactionEvent(t, c, <<"1">>, emoji, <<"1">>) /\ BindFrame
    \/ \E t \in Tasks : AddReactionSelect(t) /\ BindFrame
    \/ \E t \in Tasks : AddReactionInsert(t) /\ BindFrame
    \/ \E t \in Tasks : AddReactionGetUser(t) /\ BindFrame
    \/ \E t \in Tasks, c \in Conns, messageId \in MessageTexts, emoji \in Emojis :
          RemoveReactionEvent(t, c, messageId, emoji, <<"1">>) /\ BindFrame
    \/ \E t \in Tasks : RemoveReactionDelete(t) /\ BindFrame

SpecUnreact == Reacting /\ [][UnreactNext]_vars

\* Creating rooms while the database comes and goes.  User 1 creates rooms,
\* user 2 asks for a private chat with user 1.
CreateNext ==
    \/ StoreFlip /\ AuthOnly
    \/ \E t \in Tasks, isGroup \in BOOLEAN :
          CreateRoomEvent(t, "c1", isGroup) /\ BindFrame
    \/ \E t \in Tasks : CreateRoomInsert(t) /\ BindFrame
    \/ \E t \in Tasks : CreateRoomAddMember(t) /\ BindFrame
    \/ \E t \in Tasks : PrivateChatEvent(t, "c2", W1) /\ BindFrame
    \/ \E t \in Tasks : PrivateGetUserByWallet(t) /\ BindFrame
    \/ \E t \in Tasks : PrivateFindPrivateRoom(t) /\ BindFrame
    \/ \E t \in Tasks : PrivateIsRoomMember(t) /\ BindFrame
    \/ \E t \in Tasks : PrivateGetUser(t) /\ BindFrame
    \/ \E t \in Tasks : PrivateCreateRoom(t) /\ BindFrame
    \/ \E t \in Tasks : PrivateAddCaller(t) /\ BindFrame
    \/ \E t \in Tasks : PrivateAddRecipient(t) /\ BindFrame

SpecCreate == Authed /\ [][CreateNext]_vars

\* Message history.  The messages table holds any rows with ids up to
\* MaxListed, in the public room and in a group room of user 1, created at
\* either instant; getRoomMessages is called for either room with any limit
\* up to MaxLimit.
MaxListed == 4
MaxLimit == 3
CreatedAts == {0, TTL}
Absent == [roomId |-> 0, createdAt |-> 0]
RowChoices == {Absent} \cup [roomId : {1, 2}, createdAt : CreatedAts]
Listing ==
    /\ now = TTL
    /\ storeUp = TRUE
    /\ nonceStore = {}
    /\ users = ProvisionedUsers
    /\ reqs = [r \in Reqs |-> IdleReq]
    /\ resp = {}
    /\ accepted = {}
    /\ acceptedSigs = [w \in Wallets |-> {}]
    /\ swept = <<>>
    /\ heard = <<>>
    /\ session = [s \in Sessions |-> IF s = "s1" THEN 1 ELSE 2]
    /\ verifiedIds = [s \in Sessions |-> IF s = "s1" THEN {1} ELSE {2}]
    /\ socks = [c \in Conns |->
                  [state |-> "open", sess |-> IF c = "c1" THEN "s1" ELSE "s2",
                   userId |-> IF c = "c1" THEN 1 ELSE 2]]
    /\ socketToUser = [c \in Conns |-> IF c = "c1" THEN 1 ELSE 2]
    /\ joined = [c \in Conns |-> IF c = "c1" THEN {1, 2} ELSE {1}]
    /\ rooms = {[id |-> 1, isGroup |-> TRUE, isPublic |-> TRUE, createdBy |-> 0],
                [id |-> 2, isGroup |-> TRUE, isPublic |-> FALSE, createdBy |-> 1]}
    /\ roomMembers = {[roomId |-> 1, userId |-> 1, copy |-> 1],
                      [roomId |-> 1, userId |-> 2, copy |-> 1],
                      [roomId |-> 2, userId |-> 1, copy |-> 1]}
    /\ \E table \in [1..MaxListed -> RowChoices] :
          messages = {[id |-> i, roomId |-> table[i].roomId, userId |-> 1,
                       createdAt |-> table[i].createdAt, expiresAt |-> NoExpiry] :
                         i \in {j \in 1..MaxListed : table[j] # Absent}}
    /\ reactions = {}
    /\ serial = [messages |-> MaxListed, reactions |-> 0]
    /\ tasks = [t \in Tasks |-> IdleTask]
    /\ emits = {}

\* One call of getRoomMessages and its answer: arg holds the limit, then the
\* ids of the rows returned.
ListMessages(roomId, limit) ==
    /\ storeUp
    /\ \E result \in GetRoomMessages(roomId, limit) :
          tasks' = [tasks EXCEPT ![1] =
                       Task("getRoomMessages", "-", 0, roomId, <<limit>> \o result)]
    /\ emits' = {}
    /\ UNCHANGED <<socks, socketToUser, joined, storeVars>>

ListNext ==
    \E roomId \in {1, 2}, limit \in 0..MaxLimit :
        ListMessages(roomId, limit) /\ BindFrame

SpecList == Listing /\ [][ListNext]_vars

\* Two messages in a row.  User 1's socket sends send_message for the public
\* room twice, the first with no expiry and the second with one, without
\* waiting for an answer, and types; user 2's socket types.
Sent(tag) ==
    /\ heard' = Append(heard, tag)
    /\ UNCHANGED <<acceptedSigs, verifiedIds, swept>>
    /\ RelayFrame
OrderNext ==
    \/ \E t \in Tasks :
          /\ heard = <<>>
          /\ SendMessageEvent(t, "c1", <<"1">>, NoExpiry)
          /\ Sent("first")
    \/ \E t \in Tasks :
          /\ heard = <<"first">>
          /\ SendMessageEvent(t, "c1", <<"1">>, TTL)
          /\ Sent("second")
    \/ \E t \in Tasks : SendIsRoomMember(t) /\ BindFrame
    \/ \E t \in Tasks : SendCreateMessage(t) /\ BindFrame
    \/ \E t \in Tasks : SendGetUser(t) /\ BindFrame
    \/ \E t \in Tasks, c \in Conns : TypingEvent(t, c, <<"1">>) /\ BindFrame
    \/ \E t \in Tasks : TypingGetUser(t) /\ BindFrame

SpecOrder == Authed /\ [][OrderNext]_vars

\* Subscriptions.  User 1 is online and a member of the public room; the
\* socket of user 2 has connected and sends auth (user 2 is not yet a member
\* of the public room, which exists).  User 1 asks for a private chat with
\* user 2.
Subscribing ==
    /\ ProvisionedAuth
    /\ session = [s \in Sessions |-> IF s = "s1" THEN 1 ELSE 2]
    /\ verifiedIds = [s \in Sessions |-> IF s = "s1" THEN {1} ELSE {2}]
    /\ socks = [c \in Conns |->
                  [state |-> "open", sess |-> IF c = "c1" THEN "s1" ELSE "s2",
                   userId |-> IF c = "c1" THEN 1 ELSE 2]]
    /\ socketToUser = [c \in Conns |-> IF c = "c1" THEN 1 ELSE 0]
    /\ joined = [c \in Conns |-> IF c = "c1" THEN {1} ELSE {}]
    /\ rooms = {[id |-> 1, isGroup |-> TRUE, isPublic |-> TRUE, createdBy |-> 0]}
    /\ roomMembers = {[roomId |-> 1, userId |-> 1, copy |-> 1]}
    /\ messages = {}
    /\ reactions = {}
    /\ serial = [messages |-> 0, reactions |-> 0]
    /\ tasks = [t \in Tasks |-> IdleTask]
    /\ emits = {}

SubscribeNext ==
    \/ \E t \in Tasks : AuthEvent(t, "c2", 0) /\ BindFrame
    \/ \E t \in Tasks : AuthGetUser(t) /\ BindFrame
    \/ \E t \in Tasks : AuthFindPublic(t) /\ BindFrame
    \/ \E t \in Tasks : AuthIsMember(t) /\ BindFrame
    \/ \E t \in Tasks : AuthAddMember(t) /\ BindFrame
    \/ \E t \in Tasks : AuthSelectUserRooms(t) /\ BindFrame
    \/ \E t \in Tasks : AuthJoinUserRooms(t) /\ BindFrame
    \/ \E t \in Tasks : PrivateChatEvent(t, "c1", W2) /\ BindFrame
    \/ \E t \in Tasks : PrivateGetUserByWallet(t) /\ BindFrame
    \/ \E t \in Tasks : PrivateFindPrivateRoom(t) /\ BindFrame
    \/ \E t \in Tasks : PrivateIsRoomMember(t) /\ BindFrame
    \/ \E t \in Tasks : PrivateGetUser(t) /\ BindFrame
    \/ \E t \in Tasks : PrivateCreateRoom(t) /\ BindFrame
    \/ \E t \in Tasks : PrivateAddCaller(t) /\ BindFrame
    \/ \E t \in Tasks : PrivateAddRecipient(t) /\ BindFrame

SpecSubscribe == Subscribing /\ [][SubscribeNext]_vars

\* Delivery.  Both users are online, bound and subscribed to the public
\* room; user 1 asks for a private chat with user 2 and posts in the public
\* and in the private room; user 2 types in both.
DeliverNext ==
    \/ \E t \in Tasks : PrivateChatEvent(t, "c1", W2) /\ BindFrame
    \/ \E t \in Tasks : PrivateGetUserByWallet(t) /\ BindFrame
    \/ \E t \in Tasks : PrivateFindPrivateRoom(t) /\ BindFrame
    \/ \E t \in Tasks : PrivateIsRoomMember(t) /\ BindFrame
    \/ \E t \in Tasks : PrivateGetUser(t) /\ BindFrame
    \/ \E t \in Tasks : PrivateCreateRoom(t) /\ BindFrame
    \/ \E t \in Tasks : PrivateAddCaller(t) /\ BindFrame
    \/ \E t \in Tasks : PrivateAddRecipient(t) /\ BindFrame
    \/ \E t \in Tasks, roomId \in {<<"1">>, <<"2">>} :
          SendMessageEvent(t, "c1", roomId, NoExpiry) /\ BindFrame
    \/ \E t \in Tasks : SendIsRoomMember(t) /\ BindFrame
    \/ \E t \in Tasks : SendCreateMessage(t) /\ BindFrame
    \/ \E t \in Tasks : SendGetUser(t) /\ BindFrame
    \/ \E t \in Tasks, roomId \in {<<"1">>, <<"2">>} :
          TypingEvent(t, "c2", roomId) /\ BindFrame
    \/ \E t \in Tasks : TypingGetUser(t) /\ BindFrame

SpecDeliver == Authed /\ [][DeliverNext]_vars

\* Broadcast groups.  User 1 is online in the public room; the socket of
\* user 2 has connected.  User 1 creates a group room and asks for a private
\* chat with user 2 and posts; the socket of user 2 sends auth, joins rooms
\* and disconnects, overlapping.  User 1 sends an event when their last one
\* has been answered.
Answered(c) == \A t \in Tasks : tasks[t].conn # c
GroupNext ==
    \/ \E t \in Tasks : AuthEvent(t, "c2", 0) /\ BindFrame
    \/ \E t \in Tasks : AuthGetUser(t) /\ BindFrame
    \/ \E t \in Tasks : AuthFindPublic(t) /\ BindFrame
    \/ \E t \in Tasks : AuthIsMember(t) /\ BindFrame
    \/ \E t \in Tasks : AuthAddMember(t) /\ BindFrame
    \/ \E t \in Tasks : AuthSelectUserRooms(t) /\ BindFrame
    \/ \E t \in Tasks : AuthJoinUserRooms(t) /\ BindFrame
    \/ \E t \in Tasks :
          Answered("c1") /\ CreateRoomEvent(t, "c1", TRUE) /\ BindFrame
    \/ \E t \in Tasks : CreateRoomInsert(t) /\ BindFrame
    \/ \E t \in Tasks : CreateRoomAddMember(t) /\ BindFrame
    \/ \E t \in Tasks :
          Answered("c1") /\ PrivateChatEvent(t, "c1", W2) /\ BindFrame
    \/ \E t \in Tasks : PrivateGetUserByWallet(t) /\ BindFrame
    \/ \E t \in Tasks : PrivateFindPrivateRoom(t) /\ BindFrame
    \/ \E t \in Tasks : PrivateIsRoomMember(t) /\ BindFrame
    \/ \E t \in Tasks : PrivateGetUser(t) /\ BindFrame
    \/ \E t \in Tasks : PrivateCreateRoom(t) /\ BindFrame
    \/ \E t \in Tasks : PrivateAddCaller(t) /\ BindFrame
    \/ \E t \in Tasks : PrivateAddRecipient(t) /\ BindFrame
    \/ \E t \in Tasks :
          JoinRoomEvent(t, "c2", <<"2">>) /\ BindFrame
    \/ \E t \in Tasks : JoinGetRoom(t) /\ BindFrame
    \/ \E t \in Tasks : JoinIsMember(t) /\ BindFrame
    \/ \E t \in Tasks : JoinAddMember(t) /\ BindFrame
    \/ \E t \in Tasks : JoinGetRoomMessages(t) /\ BindFrame
    \/ \E t \in Tasks : JoinGetRoomMembers(t) /\ BindFrame
    \/ \E t \in Tasks : JoinGetMessagesReactions(t) /\ BindFrame
    \/ \E t \in Tasks : JoinGetUser(t) /\ BindFrame
    \/ \E t \in Tasks :
          /\ Answered("c1")
          /\ SendMessageEvent(t, "c1", <<"2">>, NoExpiry)
          /\ BindFrame
    \/ \E t \in Tasks : SendIsRoomMember(t) /\ BindFrame
    \/ \E t \in Tasks : SendCreateMessage(t) /\ BindFrame
    \/ \E t \in Tasks : SendGetUser(t) /\ BindFrame
    \/ \E t \in Tasks : Disconnect(t, "c2") /\ BindFrame
    \/ \E t \in Tasks : DisconnectGetUser(t) /\ BindFrame

SpecGroup == Subscribing /\ [][GroupNext]_vars

\* Two rooms.  Both users are online in the public room; user 2 has created
\* the group room 2, is its only member and has posted message 1 in it.  Both
\* users react to the message and take reactions back, naming either room in
\* the payload, and type in either room, overlapping.
PostedInGroup ==
    {[id |-> 1, roomId |-> 2, userId |-> 2, createdAt |-> 0,
      expiresAt |-> NoExpiry]}
TwoRooms ==
    /\ ProvisionedAuth
    /\ session = [s \in Sessions |-> IF s = "s1" THEN 1 ELSE 2]
    /\ verifiedIds = [s \in Sessions |-> IF s = "s1" THEN {1} ELSE {2}]
    /\ socks = [c \in Conns |->
                  [state |-> "open", sess |-> IF c = "c1" THEN "s1" ELSE "s2",
                   userId |-> IF c = "c1" THEN 1 ELSE 2]]
    /\ socketToUser = [c \in Conns |-> IF c = "c1" THEN 1 ELSE 2]
    /\ joined = [c \in Conns |-> IF c = "c1" THEN {1} ELSE {1, 2}]
    /\ rooms = {[id |-> 1, isGroup |-> TRUE, isPublic |-> TRUE, createdBy |-> 0],
                [id |-> 2, isGroup |-> TRUE, isPublic |-> FALSE, createdBy |-> 2]}
    /\ roomMembers = {[roomId |-> 1, userId |-> 1, copy |-> 1],
                      [roomId |-> 1, userId |-> 2, copy |-> 1],
                      [roomId |-> 2, userId |-> 2, copy |-> 1]}
    /\ messages = PostedInGroup
    /\ reactions = {}
    /\ serial = [messages |-> 1, reactions |-> 0]
    /\ tasks = [t \in Tasks |-> IdleTask]
    /\ emits = {}
RoomTexts == {<<"1">>, <<"2">>}

AcrossNext ==
    \/ \E t \in Tasks, c \in Conns, roomId \in RoomTexts :
          AddReactionEvent(t, c, <<"1">>, "+", roomId) /\ BindFrame
    \/ \E t \in Tasks : AddReactionSelect(t) /\ BindFrame
    \/ \E t \in Tasks : AddReactionInsert(t) /\ BindFrame
    \/ \E t \in Tasks : AddReactionGetUser(t) /\ BindFrame
    \/ \E t \in Tasks, c \in Conns, roomId \in RoomTexts :
          RemoveReactionEvent(t, c, <<"1">>, "+", roomId) /\ BindFrame
    \/ \E t \in Tasks : RemoveReactionDelete(t) /\ BindFrame
    \/ \E t \in Tasks, c \in Conns, roomId \in RoomTexts :
          TypingEvent(t, c, roomId) /\ BindFrame
    \/ \E t \in Tasks : TypingGetUser(t) /\ BindFrame
    \/ \E t \in Tasks, c \in Conns, roomId \in RoomTexts :
          StopTypingEvent(t, c, roomId) /\ BindFrame
    \/ \E t \in Tasks : StopTypingGetUser(t) /\ BindFrame

SpecAcross == TwoRooms /\ [][AcrossNext]_vars

\* A joiner.  From the two rooms above: user 1's socket sends join_room for
\* room 2 while user 2's socket posts in room 2, overlapping; the store stays
\* up.  What reaches user 1's socket is recorded once: "joined" and the ids
\* listed by a room_joined, and the id of each new_message broadcast to a
\* group the socket is in.
ListTag(id) == <<"list1", "list2", "list3", "list4">>[id]
NewTag(id) == <<"new1", "new2", "new3", "new4">>[id]
Reaches(e, c) ==
    /\ socks[c].state = "open"
    /\ \/ e.kind = "socket" /\ e.conn = c
       \/ e.kind = "room" /\ e.room \in joined'[c]
Tags(e) ==
    IF e.ev = "room_joined"
    THEN <<"joined">> \o [i \in 1..Len(e.payload.seen) |-> ListTag(e.payload.seen[i])]
    ELSE IF e.ev = "new_message" THEN <<NewTag(e.payload.message)>>
    ELSE <<>>
Heard(tag) == \E i \in 1..Len(heard) : heard[i] = tag
ObserveJoiner(c) ==
    /\ heard' = IF \E e \in emits' : Reaches(e, c)
                THEN LET e == CHOOSE x \in emits' : Reaches(x, c) IN
                     heard \o SelectSeq(Tags(e), LAMBDA tag : ~Heard(tag))
                ELSE heard
    /\ UNCHANGED <<acceptedSigs, verifiedIds, swept>>
    /\ RelayFrame

JoinerNext ==
    \/ \E t \in Tasks : JoinRoomEvent(t, "c1", <<"2">>) /\ ObserveJoiner("c1")
    \/ \E t \in Tasks : JoinGetRoom(t) /\ ObserveJoiner("c1")
    \/ \E t \in Tasks : JoinIsMember(t) /\ ObserveJoiner("c1")
    \/ \E t \in Tasks : JoinAddMember(t) /\ ObserveJoiner("c1")
    \/ \E t \in Tasks : JoinGetRoomMessages(t) /\ ObserveJoiner("c1")
    \/ \E t \in Tasks : JoinGetRoomMembers(t) /\ ObserveJoiner("c1")
    \/ \E t \in Tasks : JoinGetMessagesReactions(t) /\ ObserveJoiner("c1")
    \/ \E t \in Tasks : JoinGetUser(t) /\ ObserveJoiner("c1")
    \/ \E t \in Tasks :
          SendMessageEvent(t, "c2", <<"2">>, NoExpiry) /\ ObserveJoiner("c1")
    \/ \E t \in Tasks : SendIsRoomMember(t) /\ ObserveJoiner("c1")
    \/ \E t \in Tasks : SendCreateMessage(t) /\ ObserveJoiner("c1")
    \/ \E t \in Tasks : SendGetUser(t) /\ ObserveJoiner("c1")

SpecJoiner == TwoRooms /\ [][JoinerNext]_vars

\* Store failures.  Both users are online; the database goes away and comes
\* back while their sockets post in the public room, type, stop typing and
\* ask who is online, overlapping.
FailNext ==
    \/ StoreFlip /\ AuthOnly
    \/ \E t \in Tasks :
          SendMessageEvent(t, "c1", <<"1">>, NoExpiry) /\ BindFrame
    \/ \E t \in Tasks : SendIsRoomMember(t) /\ BindFrame
    \/ \E t \in Tasks : SendCreateMessage(t) /\ BindFrame
    \/ \E t \in Tasks : SendGetUser(t) /\ BindFrame
    \/ \E t \in Tasks : TypingEvent(t, "c2", <<"1">>) /\ BindFrame
    \/ \E t \in Tasks : TypingGetUser(t) /\ BindFrame
    \/ \E t \in Tasks : StopTypingEvent(t, "c2", <<"1">>) /\ BindFrame
    \/ \E t \in Tasks : StopTypingGetUser(t) /\ BindFrame
    \/ \E t \in Tasks, c \in Conns : GetOnlineUsersEvent(t, c) /\ BindFrame
    \/ \E t \in Tasks : GetOnlineUsersGetUser(t) /\ BindFrame

SpecFail == Authed /\ [][FailNext]_vars

\* First verifications.  Challenges are issued for both wallets and signed by
\* their owners; the verify requests carry a username or none, two of them in
\* flight.  The username of the request that has just created a user is kept
\* for one step.
ObserveName(username) ==
    /\ heard' = username
    /\ UNCHANGED <<acceptedSigs, verifiedIds, swept>>
    /\ HttpFrame
NameNext ==
    \/ \E w \in Wallets : IssueChallenge(w, "n1") /\ AuthOnly
    \/ \E r \in Reqs, s \in Sessions, w \in Wallets :
          VerifyStart(r, s, w, Sign(w, Message("n1", w))) /\ AuthOnly
    \/ \E r \in Reqs : VerifyLookup(r) /\ AuthOnly
    \/ \E r \in Reqs, username \in UsernameInputs :
          VerifyCreate(r, username) /\ ObserveName(username)

SpecName == Init /\ [][NameNext]_vars

\* Retries.  The database goes away and comes back while challenges are
\* issued for both wallets and signed by their owners, two verify requests in
\* flight.
RetryNext ==
    \/ StoreFlip /\ AuthOnly
    \/ \E w \in Wallets : IssueChallenge(w, "n1") /\ AuthOnly
    \/ \E r \in Reqs, w \in Wallets :
          VerifyStart(r, "s1", w, Sign(w, Message("n1", w))) /\ AuthOnly
    \/ \E r \in Reqs : VerifyLookup(r) /\ AuthOnly
    \/ \E r \in Reqs : VerifyCreate(r, NoName) /\ AuthOnly

SpecRetry == Init /\ [][RetryNext]_vars

\* ======================================================================
\* Claims
\* ======================================================================

\* The synchronous part of request r answered for wallet w in this step.
AnsweredAtOnce(r, w) ==
    /\ reqs[r].pc = "idle"
    /\ \E e \in resp' : e.op = "verify" /\ e.req = r /\ e.wallet = w
                          /\ e.error # "required"

\* C1: challenges are single-use: a verify whose signature is valid over the
\* stored challenge succeeds (200, session established) and evicts the
\* challenge, and a verify that finds no challenge fails with "No nonce found".
C1_SingleUse ==
    [][\A r \in Reqs :
        /\ \A a \in accepted' : a.req = r => (Stored(a.wallet))' = {}
        /\ \A w \in WalletInputs :
              (AnsweredAtOnce(r, w) /\ Stored(w) = {})
                 => \A e \in resp' : e.status = 400 /\ e.error = "No nonce found"
        /\ (reqs[r].pc # "idle" /\ reqs'[r].pc = "idle")
              => /\ \E e \in resp' : e.req = r /\ e.status = 200
                 /\ session'[reqs[r].sess] # 0
      ]_vars

\* C2: a session gets a user id only when a verify request of that session,
\* whose signature was valid under its wallet over the challenge stored for
\* that wallet, completes, and the id is that wallet's user; every verify that
\* answers with a failure leaves all sessions unchanged.
C2_SessionOnlyByVerify ==
    [][/\ \A a \in accepted' :
             /\ Stored(a.wallet) # {}
             /\ \A e \in Stored(a.wallet) :
                   /\ a.sig.signer = a.wallet
                   /\ a.sig.message = Message(e.nonce, a.wallet)
                   /\ a.sig.len = SignatureLength
       /\ \A r \in Reqs :
             (reqs[r].pc = "idle" /\ reqs'[r].pc # "idle")
                => \E a \in accepted' : a.req = r /\ a.wallet = reqs'[r].wallet
       /\ \A s \in Sessions :
             session'[s] # session[s]
                => \E r \in Reqs :
                      /\ reqs[r].pc \in {"getUserByWallet", "createUser"}
                      /\ reqs[r].sess = s
                      /\ reqs'[r].pc = "idle"
                      /\ \E u \in users' : /\ u.walletAddress = reqs[r].wallet
                                             /\ u.id = session'[s]
                      /\ \E e \in resp' : e.req = r /\ e.status = 200
       /\ (\E e \in resp' : e.op = "verify" /\ e.status # 200)
             => session' = session
      ]_vars

\* A session bound to a user by a verify that answered 200.
C2_Witness ==
    \E s \in Sessions :
        /\ session[s] # 0
        /\ \E e \in resp : e.op = "verify" /\ e.status = 200

\* C3: a verify for a wallet whose challenge is older than the TTL answers
\* "Nonce expired" whatever the signature, changes no session, suspends no
\* request and evicts the challenge; a verify for a wallet with no challenge
\* answers "No nonce found".
C3_ExpiredRejected ==
    [][\A r \in Reqs, w \in Wallets :
        /\ (AnsweredAtOnce(r, w)
              /\ \E e \in Stored(w) : now - e.timestamp > TTL)
             => /\ \A x \in resp' : x.status = 400 /\ x.error = "Nonce expired"
                /\ (Stored(w))' = {}
                /\ session' = session
                /\ reqs' = reqs
                /\ accepted' = {}
        /\ (AnsweredAtOnce(r, w) /\ Stored(w) = {})
             => /\ \A x \in resp' : x.status = 400 /\ x.error = "No nonce found"
                /\ session' = session
                /\ reqs' = reqs
      ]_vars

\* A correctly signed verify was just answered "Nonce expired", and the
\* challenge is gone.
C3_Witness ==
    \E e \in resp :
        /\ e.op = "verify"
        /\ e.error = "Nonce expired"
        /\ e.valid
        /\ Stored(e.wallet) = {}
        /\ now > TTL

\* C4: replay protection: a signature accepted once for a wallet is never
\* accepted again for that wallet.
C4_NoReplay ==
    [][\A a \in accepted' : a.sig \notin acceptedSigs[a.wallet]]_vars

\* C5: whenever socketToUser maps a socket to a user, that user id is the one
\* the socket's session held at the handshake, and a verify that answered 200
\* had stored it in that session; no payload field takes part.
C5_BindingFromSession ==
    \A c \in Conns :
        socketToUser[c] # 0
          => /\ socketToUser[c] = socks[c].userId
             /\ socketToUser[c] \in verifiedIds[socks[c].sess]

\* A socket bound to the user of its handshake while its session has since
\* been re-authenticated as the other user.
C5_Witness ==
    \E c \in Conns :
        /\ socketToUser[c] # 0
        /\ session[socks[c].sess] # 0
        /\ session[socks[c].sess] # socketToUser[c]

\* The membership rows of user userId in room roomId.
MembershipRows(roomId, userId) ==
    {m \in roomMembers : m.roomId = roomId /\ m.userId = userId}

\* C6: a send_message of a bound user whose membership check finds no row of
\* theirs in the target room ends there: the socket gets the error "Not a
\* member of this room" (the catch block's error when the room id is not a
\* number), no message row is inserted and no new_message is emitted.  So
\* every stored message is from a member of its room.
C6_NonMemberRejected ==
    /\ [][\A t \in Tasks :
            /\ tasks[t].pc = "send_message:isRoomMember"
            /\ tasks'[t] # tasks[t]
            /\ socketToUser[tasks[t].conn] = tasks[t].userId
            /\ MembershipRows(tasks[t].roomId, tasks[t].userId) = {}
            => /\ tasks'[t].pc = "idle"
               /\ messages' = messages
               /\ \A e \in emits' : e.ev # "new_message"
               /\ emits' = {ErrorTo(tasks[t].conn,
                                IF tasks[t].roomId = NaN
                                THEN "Failed to send message"
                                ELSE "Not a member of this room")}]_vars
    /\ [](\A m \in messages : MembershipRows(m.roomId, m.userId) # {})

\* A user who has posted in a room of theirs has just been refused, while
\* there is a room they are not in.
C6_Witness ==
    \E c \in Conns, r \in rooms :
        /\ ErrorTo(c, "Not a member of this room") \in emits
        /\ socketToUser[c] # 0
        /\ MembershipRows(r.id, socketToUser[c]) = {}
        /\ \E m \in messages : m.userId = socketToUser[c]

\* C7: at most one room has is_public = true, also when the ensurePublicRoom
\* calls of different sockets' auth handlers interleave on first use.
C7_OnePublicRoom == Cardinality(PublicRooms) <= 1

\* C8: at most one room_members row per (room, user), for any interleaving
\* of auth, join_room, create_room and create_private_chat.
C8_OneMembershipRow ==
    \A m \in roomMembers, x \in roomMembers :
        m.roomId = x.roomId /\ m.userId = x.userId => m = x

\* The reaction rows of one (message, user, emoji).
ReactionRows(messageId, userId, emoji) ==
    {r \in reactions :
        r.messageId = messageId /\ r.userId = userId /\ r.emoji = emoji}

\* C9: at most one reactions row per (message, user, emoji), also when two
\* add_reaction handlers for the same triple interleave between the
\* existence check and the insert.
C9_OneReactionRow ==
    \A r \in reactions : ReactionRows(r.messageId, r.userId, r.emoji) = {r}

\* C10: with one add_reaction at a time, an addReaction whose triple already
\* has a row inserts nothing, leaves the table as it is and returns that row
\* (its id); the table never holds two rows of one triple.
C10_AddReactionIdempotent ==
    /\ [][\A t \in Tasks :
            /\ tasks[t].pc = "add_reaction:select"
            /\ tasks'[t] # tasks[t]
            /\ ReactionRows(tasks[t].arg[1], tasks[t].userId, tasks[t].text[1]) # {}
            => /\ reactions' = reactions
               /\ serial' = serial
               /\ tasks'[t].pc = "add_reaction:getUser"
               /\ \A r \in ReactionRows(tasks[t].arg[1], tasks[t].userId,
                                        tasks[t].text[1]) :
                      tasks'[t].arg[2] = r.id]_vars
    /\ [](\A r \in reactions : ReactionRows(r.messageId, r.userId, r.emoji) = {r})

\* An addReaction has returned a reaction that is not the one inserted last:
\* the row of an earlier call.
C10_Witness ==
    \E t \in Tasks :
        /\ tasks[t].pc = "add_reaction:getUser"
        /\ tasks[t].arg[2] < serial.reactions
        /\ \E r \in reactions : r.id = tasks[t].arg[2]

\* A sweep's DELETE answers in this step, in the handler of slot t.
SweepAnswers(t) ==
    /\ tasks[t].pc = "sweep:deleteExpiredMessages"
    /\ tasks'[t].pc = "idle"
\* The messages whose expiry had passed when the sweep of slot t took `now`.
Lapsed(t) ==
    {m \in messages : m.expiresAt # NoExpiry /\ m.expiresAt <= tasks[t].arg[1]}

\* C11: whenever a message is deleted, a message_deleted event carrying its
\* id is emitted to its room in the same step.
C11_DeletionAnnounced ==
    [][\A m \in messages :
          m \notin messages'
          => \E e \in emits' : /\ e.ev = "message_deleted"
                               /\ e.kind = "room"
                               /\ e.room = m.roomId
                               /\ e.payload.message = m.id]_vars

\* C12: a sweep that answers with the store available removes every message
\* whose expiry had passed when it started, with or without reactions.
C12_ExpiredRemoved ==
    [][\A t \in Tasks :
          SweepAnswers(t) /\ storeUp
          => \A m \in Lapsed(t) : m \notin messages']_vars

\* C13: deleting a message deletes its reactions: after a sweep has answered
\* with the store available no reaction of a message it was to delete is
\* left, and every reaction row refers to a stored message.
C13_ReactionsCascade ==
    /\ [][\A t \in Tasks :
            SweepAnswers(t) /\ storeUp
            => \A m \in Lapsed(t) :
                  \A r \in reactions' : r.messageId # m.id]_vars
    /\ [](\A r \in reactions : \E m \in messages : m.id = r.messageId)

\* C18: a sweep that runs when no stored message has reached its expiry
\* deletes nothing and reports nothing deleted; a completed sweep leaves no
\* message whose expiry had passed when it started, so one that follows it
\* with no new expiry is such a sweep; no message id is deleted by two sweeps.
C18_SecondSweepEmpty ==
    /\ [][\A t \in Tasks :
            SweepAnswers(t) /\ swept' # swept
            => /\ swept' = Append(swept, {m.id : m \in Lapsed(t)})
               /\ \A m \in messages' :
                     m.expiresAt = NoExpiry \/ m.expiresAt > tasks[t].arg[1]
               /\ Lapsed(t) = {} => messages' = messages]_vars
    /\ [](\A i \in 1..Len(swept), j \in 1..Len(swept) :
             i # j => swept[i] \cap swept[j] = {})

\* A sweep deleted a message and the sweep completed after it deleted none.
C18_Witness ==
    /\ Len(swept) >= 2
    /\ swept[Len(swept) - 1] # {}
    /\ swept[Len(swept)] = {}
    /\ messages # {}

\* C20: every stored message with an expiry has it after its creation time,
\* for every expiresAt a client can send.
C20_ExpiryAfterCreation ==
    \A m \in messages : m.expiresAt # NoExpiry => m.expiresAt > m.createdAt

\* The rooms that are neither group nor public and have both users as members.
SharedPrivateRooms(u, v) ==
    {r \in rooms : /\ ~r.isGroup
                   /\ ~r.isPublic
                   /\ MembershipRows(r.id, u) # {}
                   /\ MembershipRows(r.id, v) # {}}
UserIds == {u.id : u \in users}

\* C14: with one create_private_chat at a time, a request of a user for
\* another user with whom they share a private room finds that room: it
\* creates no room, adds no membership row, and ends with room_created
\* carrying the room; so a second request returns the room of the first, and
\* no pair of distinct users shares two private rooms.
C14_SameRoomTwice ==
    /\ [][\A t \in Tasks :
            /\ tasks[t].pc \in {"private:findPrivateRoom", "private:isRoomMember"}
            /\ tasks'[t] # tasks[t]
            /\ tasks[t].arg[1] # tasks[t].userId
            /\ SharedPrivateRooms(tasks[t].userId, tasks[t].arg[1]) # {}
            => /\ rooms' = rooms
               /\ roomMembers' = roomMembers
               /\ tasks'[t].pc \in {"private:isRoomMember", "idle"}
               /\ tasks'[t].pc = "idle"
                  => \E r \in SharedPrivateRooms(tasks[t].userId, tasks[t].arg[1]) :
                        emits' = {ToSocket(tasks[t].conn, "room_created", "",
                                      [NoPayload EXCEPT !.rooms = {r.id}])}]_vars
    /\ [](\A u \in UserIds, v \in UserIds :
             u # v => Cardinality(SharedPrivateRooms(u, v)) <= 1)

\* User 1, who made the private room shared with user 2 and has it selected,
\* asks again: findPrivateRoom has read the rooms to look through.
C14_Witness ==
    \E t \in Tasks, r \in SharedPrivateRooms(1, 2) :
        /\ r.createdBy = 1
        /\ r.id \in joined["c1"]
        /\ tasks[t].pc = "private:isRoomMember"
        /\ tasks[t].userId = 1
        /\ tasks[t].arg[1] = 2

\* C15: for every pair of distinct users at most one room that is neither
\* group nor public has both as members, also when their create_private_chat
\* requests for each other interleave.
C15_OnePrivateRoomPerPair ==
    \A u \in UserIds, v \in UserIds :
        u # v => Cardinality(SharedPrivateRooms(u, v)) <= 1

\* C16: a room event (create_room, create_private_chat, join_room,
\* send_message, typing, stop_typing, add_reaction, remove_reaction) from a
\* socket that is not bound to a user is answered with the error
\* "Not authenticated" to that socket and nothing else: no handler is left
\* suspended on the store, no row changes, no socket joins a room.
C16_UnboundRefused ==
    [][heard' # <<>> /\ socketToUser[heard'[1]] = 0
       => /\ emits' = {ErrorTo(heard'[1], "Not authenticated")}
          /\ UNCHANGED <<tasks, storeVars, joined, socketToUser>>]_vars

\* The step in which removeReaction answers the handler in slot t.
RemoveAnswers(t) ==
    /\ tasks[t].pc = "remove_reaction:removeReaction"
    /\ tasks'[t] # tasks[t]

\* C17: when removeReaction answers, reaction_removed is broadcast if and only
\* if a reactions row of (message, user, emoji) was deleted in that step, and
\* then it names that triple and no row of the triple is left; when there was
\* no such row, no row changes and no event is emitted (when the query itself
\* fails, no row changes and only the sender gets an error).
C17_RemovedIffDeleted ==
    [][\A t \in Tasks : RemoveAnswers(t) =>
         LET k == tasks[t]
             rows == ReactionRows(k.arg[1], k.userId, k.text[1])
             failed == ErrorTo(k.conn, "Failed to remove reaction")
         IN /\ (\E e \in emits' : e.ev = "reaction_removed") <=> reactions' # reactions
            /\ reactions' # reactions
               => /\ rows # {}
                  /\ reactions' = reactions \ rows
                  /\ \A e \in emits' :
                        /\ e.ev = "reaction_removed"
                        /\ e.payload.message = k.arg[1]
                        /\ e.payload.user = k.userId
                        /\ e.msg = k.text[1]
            /\ rows # {} => reactions' # reactions
            /\ rows = {} => /\ reactions' = reactions
                            /\ emits' \in {{}, {failed}}
                            /\ emits' = {failed} => k.arg[1] = NaN]_vars

\* A reaction has just been taken back and announced, and another reaction is
\* still there.
C17_Witness ==
    \E e \in emits :
        /\ e.ev = "reaction_removed"
        /\ ReactionRows(e.payload.message, e.payload.user, e.msg) = {}
        /\ reactions # {}

\* C19: at most one users row per wallet; a verify that succeeds for a wallet
\* leaves the session holding the id of that wallet's row, the row that was
\* there before the step when there was one; and no users row is ever deleted
\* or changed, also when two verifies for a new wallet both pass the lookup
\* before either inserts.
C19_OneUserPerWallet ==
    /\ [](\A u \in users, v \in users : u.walletAddress = v.walletAddress => u = v)
    /\ [][users \subseteq users']_vars
    /\ [][\A e \in resp' :
            e.op = "verify" /\ e.status = 200
            => \E u \in UserByWallet(e.wallet)' :
                  /\ session'[reqs[e.req].sess] = u.id
                  /\ UserByWallet(e.wallet) \in {{}, {u}}]_vars

\* Two verifies for a new wallet raced: the wallet has its row and the insert
\* of the second has just been rejected, while another wallet has a row too.
C19_Witness ==
    \E e \in resp :
        /\ e.op = "verify"
        /\ e.status = 500
        /\ UserByWallet(e.wallet) # {}
        /\ \E u \in users : u.walletAddress # e.wallet

\* C21: every room other than the public room has its creator as a member,
\* once the handler that inserted it is past its membership insert: a
\* create_room or create_private_chat whose membership insert fails leaves no
\* room row behind.
C21_RoomHasCreator ==
    \A r \in rooms :
        ~r.isPublic
        => \/ IsRoomMember(r.id, r.createdBy)
           \/ \E t \in Tasks :
                 /\ tasks[t].roomId = r.id
                 /\ tasks[t].pc \in {"create_room:addMember", "private:addCaller"}

\* C22: every verify answer that is not a success is a 400 or a 401 naming a
\* missing field, a missing challenge, an expired challenge or an invalid
\* signature; a signature that does not verify, whatever its length, is
\* answered 401 "Invalid signature".
C22_FailuresAreAuthErrors ==
    \A e \in resp :
        e.op = "verify" /\ e.status # 200
        => /\ e.status \in {400, 401}
           /\ e.error \in {"required", "No nonce found", "Nonce expired",
                           "Invalid signature"}

\* C23: a challenge request with no wallet address or with one that is not a
\* public key is answered 400, stores no challenge and leaves every stored
\* challenge as it was; no challenge is ever stored under such a key.
C23_InvalidIdentityRefused ==
    /\ [][\A e \in resp' :
            e.op = "nonce" /\ e.wallet \notin Wallets
            => /\ e.status = 400
               /\ e.error = IF e.wallet = NoWallet THEN "Wallet address required"
                             ELSE "Invalid wallet address"
               /\ nonceStore' = nonceStore]_vars
    /\ [](\A e \in nonceStore : e.wallet \in Wallets)

\* A malformed wallet address has just been refused while challenges of both
\* wallets are stored.
C23_Witness ==
    /\ \E e \in resp : e.op = "nonce" /\ e.wallet = BadWallet /\ e.status = 400
    /\ \A w \in Wallets : Stored(w) # {}

\* The instant a message was created.
CreatedAt(id) == (CHOOSE m \in messages : m.id = id).createdAt

\* C24: getRoomMessages(room, limit) returns min(limit, n) messages of the
\* room (n: the messages stored for it), each once, none of another room,
\* none older than a message of the room it leaves out, oldest first.
C24_NewestOldestFirst ==
    \A t \in Tasks :
        tasks[t].pc = "getRoomMessages" =>
          LET limit == Head(tasks[t].arg)
              result == Tail(tasks[t].arg)
              inRoom == {m \in messages : m.roomId = tasks[t].roomId}
              n == Cardinality(inRoom)
              returned == {result[i] : i \in 1..Len(result)}
          IN /\ Len(result) = IF limit < n THEN limit ELSE n
             /\ Cardinality(returned) = Len(result)
             /\ returned \subseteq {m.id : m \in inRoom}
             /\ \A m \in inRoom :
                   m.id \notin returned
                   => \A id \in returned : m.createdAt <= CreatedAt(id)
             /\ \A i \in 1..Len(result), j \in 1..Len(result) :
                   i < j => CreatedAt(result[i]) <= CreatedAt(result[j])

\* A call that returned two messages created at different instants and left
\* out an older one of the room, while the other room holds a message too.
C24_Witness ==
    \E t \in Tasks :
        /\ tasks[t].pc = "getRoomMessages"
        /\ Len(tasks[t].arg) = 3
        /\ tasks[t].arg[1] = 2
        /\ CreatedAt(tasks[t].arg[2]) < CreatedAt(tasks[t].arg[3])
        /\ Cardinality({m \in messages : m.roomId = tasks[t].roomId}) = 3
        /\ \E m \in messages : m.roomId # tasks[t].roomId

C26_ReissueReplaces ==
    /\ [](\A w \in Wallets : Cardinality(Stored(w)) <= 1)
    /\ [][\A e \in resp' :
            e.op = "nonce" /\ e.status = 200
            => /\ \E new \in Stored(e.wallet)' :
                     Stored(e.wallet)' = {new} /\ new.timestamp = now
               /\ \A w \in Wallets : w # e.wallet => Stored(w)' = Stored(w)]_vars
    /\ [][\A a \in accepted' :
            a.wallet = W1
            => \A i \in 1..Len(heard) : a.sig.message # Message(heard[i], W1)]_vars

\* C27: no two handlers of one socket are suspended at the same time, and
\* of two send_message events sent in a row by one socket the first is
\* stored (gets the lower message id) before the second.
C27_OneEventAtATime ==
    /\ \A t \in Tasks, u \in Tasks :
          t # u /\ tasks[t].pc # "idle" /\ tasks[u].pc # "idle"
          => tasks[t].conn # tasks[u].conn
    /\ \A first \in messages, second \in messages :
          first.expiresAt = NoExpiry /\ second.expiresAt # NoExpiry
          => first.id < second.id

\* C28: a socket that has disconnected and has no handler left suspended has
\* no entry in socketToUser.
C28_DisconnectUnbinds ==
    \A c \in Conns :
        /\ socks[c].state = "closed"
        /\ \A t \in Tasks : tasks[t].pc # "idle" => tasks[t].conn # c
        => socketToUser[c] = 0

\* C29: at the moment auth_success is emitted for user u on socket c, u is a
\* member of a public room that is in the rooms list sent, and c (if still
\* connected) is in the broadcast group of every room u is a member of.
C29_SubscribedToOwnRooms ==
    \A e \in emits :
        e.ev = "auth_success" =>
          /\ \E p \in PublicRooms :
                IsRoomMember(p.id, e.payload.user) /\ p.id \in e.payload.rooms
          /\ socks[e.conn].state = "open"
             => UserRooms(e.payload.user) \subseteq joined[e.conn]

\* C30: a new_message for a room reaches every connected, bound socket whose
\* user is a member of the room when it is broadcast: each such socket is in
\* the room's broadcast group.
C30_NewMessageReachesMembers ==
    \A e \in emits :
        e.ev = "new_message" =>
          \A c \in Conns :
              /\ socks[c].state = "open"
              /\ socketToUser[c] # 0
              /\ IsRoomMember(e.room, socketToUser[c])
              => e.room \in joined[c]

\* C31: an open connection is in the broadcast group of a room only while it
\* is bound to a user who has a membership row in that room, and a new_message
\* for a room is broadcast only to groups holding such connections.
Subscribed(c, roomId) == socks[c].state = "open" /\ roomId \in joined[c]
C31_SubscribedOnlyIfMember ==
    /\ \A c \in Conns : \A r \in rooms :
          Subscribed(c, r.id) =>
             socketToUser[c] # 0 /\ IsRoomMember(r.id, socketToUser[c])
    /\ \A e \in emits :
          e.ev = "new_message" =>
             \A c \in Conns :
                Subscribed(c, e.room) =>
                   socketToUser[c] # 0 /\ IsRoomMember(e.room, socketToUser[c])
C31_Witness ==
    \E e \in emits :
        /\ e.ev = "new_message"
        /\ e.room # 1
        /\ Subscribed("c2", e.room)
        /\ Subscribed("c1", e.room)

\* C32: every reaction_added and reaction_removed event about a message is
\* broadcast to the group of the room the message belongs to, whatever roomId
\* the add_reaction or remove_reaction payload carried.
C32_ReactionEventsToMessageRoom ==
    \A e \in emits :
        e.ev \in {"reaction_added", "reaction_removed"} =>
           \E m \in messages :
               /\ m.id = e.payload.message
               /\ e.kind = "room"
               /\ e.room = m.roomId

\* C33: a reaction row of user u on message m is stored only if u is a member
\* of m's room, and user_typing / user_stop_typing goes to a room's group only
\* on behalf of a member of that room.
C33_RoomActionsMembersOnly ==
    /\ \A r \in reactions :
          \E m \in messages :
              m.id = r.messageId /\ IsRoomMember(m.roomId, r.userId)
    /\ \A e \in emits :
          e.ev \in {"user_typing", "user_stop_typing"} =>
             IsRoomMember(e.room, e.payload.user)

\* C34: every non-group, non-public room has exactly two membership rows, of
\* two distinct users, whenever no handler is suspended between inserting
\* the room and inserting its members.
RowsOfRoom(roomId) == {m \in roomMembers : m.roomId = roomId}
C34_PairwiseHasTwoMembers ==
    \A r \in rooms :
        /\ ~r.isGroup
        /\ ~r.isPublic
        /\ \A t \in Tasks : tasks[t].roomId # r.id
        => /\ Cardinality(RowsOfRoom(r.id)) = 2
           /\ Cardinality({m.userId : m \in RowsOfRoom(r.id)}) = 2

\* C35: once room_joined has reached the joiner's socket, every message stored
\* in the room is in a room_joined list the socket got or has reached it as a
\* new_message, unless the send_message handler that stored it has yet to
\* broadcast it.
C35_JoinerMissesNothing ==
    Heard("joined") =>
       \A m \in messages :
           m.roomId = 2 =>
              \/ Heard(ListTag(m.id))
              \/ Heard(NewTag(m.id))
              \/ \E t \in Tasks :
                    /\ tasks[t].pc = "send_message:getUser"
                    /\ tasks[t].arg = <<m.id>>
C35_Witness ==
    /\ Heard("joined")
    /\ Heard(ListTag(1))
    /\ Heard(NewTag(2))
    /\ ~Heard(ListTag(2))
    /\ \A t \in Tasks : tasks[t].pc = "idle"

\* C36: when a store call of a relay handler of a bound connection fails,
\* the step answers with exactly one error event, to the originating
\* connection only, the handler ends, and no connection is closed and the
\* connection-to-user map is unchanged; for every handler, typing,
\* stop_typing and get_online_users included.
StoreCallFails(t) ==
    /\ ~storeUp
    /\ tasks[t].pc # "idle"
    /\ tasks[t].conn \in Conns
    /\ tasks'[t] # tasks[t]
    /\ tasks[t].pc = "get_online_users:getUser" => tasks[t].arg # <<>>
C36_FailureAnsweredWithError ==
    [][\A t \in Tasks :
          StoreCallFails(t) =>
             /\ \E e \in emits' :
                   /\ emits' = {e}
                   /\ e.ev = "error"
                   /\ e.kind = "socket"
                   /\ e.conn = tasks[t].conn
             /\ tasks'[t] = IdleTask
             /\ socks' = socks
             /\ socketToUser' = socketToUser]_vars

\* C37: a sweep that answers removes exactly the messages whose expiry is set
\* and at or before the time the sweep took, and leaves every other message
\* as it is; a sweep that fails because the store is unavailable removes
\* nothing and ends, so that the timer's next tick runs another; no other
\* step deletes a message.
C37_SweepRemovesExactlyExpired ==
    [][/\ \A t \in Tasks :
             SweepAnswers(t) =>
                /\ messages' \subseteq messages
                /\ messages \ messages' = IF storeUp THEN Lapsed(t) ELSE {}
                /\ tasks'[t] = IdleTask
       /\ (\E m \in messages : m \notin messages')
             => \E t \in Tasks : SweepAnswers(t)]_vars

\* C38 as stated: the display name of every auto-created user is "User_"
\* followed by the first 6 characters of its key, whatever else the verify
\* request carried.
FirstSix(w) == [i \in 1..(IF Len(w) < 6 THEN Len(w) ELSE 6) |-> w[i]]
C38_NameFromKeyAlone ==
    \A u \in users : u.username = <<"User_">> \o FirstSix(u.walletAddress)

\* C38, amended: a verify request that creates a user gives it the username
\* the request carries, and when it carries none "User_" followed by the
\* first 6 characters of the key.
C38_DefaultNameFromKey ==
    [][\A u \in users' \ users :
          u.username = IF heard' # NoName THEN heard'
                       ELSE <<"User_">> \o FirstSix(u.walletAddress)]_vars
C38_Witness ==
    /\ \E u \in users :
          /\ u.walletAddress = W1
          /\ u.username = <<"User_", "A", "b", "c", "d", "e", "f">>
    /\ heard = NoName
    /\ \E e \in resp : e.op = "verify" /\ e.status = 200 /\ e.wallet = W1

\* C39: a verify request evicts a stored challenge only when it answers that
\* the challenge has expired or when it ends with a session established for
\* the key's user: a request that found the signature valid and whose user
\* lookup or insert then fails leaves the challenge stored for a retry.
C39_EvictsOnlyWithSessionOrExpiry ==
    [][/\ \A w \in Wallets :
             (Stored(w) # {} /\ (Stored(w))' = {})
                => \/ \E e \in resp' : e.wallet = w /\ e.error = "Nonce expired"
                   \/ \E a \in accepted' : a.wallet = w
       /\ \A r \in Reqs :
             (reqs[r].pc # "idle" /\ reqs'[r].pc = "idle")
                => \/ /\ \E e \in resp' : e.req = r /\ e.status = 200
                      /\ session'[reqs[r].sess] # 0
                   \/ (Stored(reqs[r].wallet))' # {}]_vars

====
